---- MODULE Spec2Model ----
(***************************************************************************)
(* Model Discovery & Context Cache Engine of the Power BI MCP finance      *)
(* server: the measure classifier (config/dynamic_measures.py), the schema *)
(* classifier (config/model_schema.py) and the context builder with its    *)
(* SQLite cache tier (context/builder.py).                                 *)
(*                                                                         *)
(* Python strings are sequences of one-character strings, so that lower(), *)
(* `in` (substring) and endswith() are computed rather than assumed.       *)
(* Confidences are in hundredths (0.9 is 90).  Time is in hours.           *)
(***************************************************************************)
EXTENDS Integers, Sequences, FiniteSets, TLC

VARIABLES
    now,                 \* datetime.now(), in hours since the first day 00:00
    cached_measures,     \* DynamicMeasureManager._cached_measures (dict, insertion order)
    measure_mappings,    \* DynamicMeasureManager._measure_mappings (dict)
    last_discovery,      \* DynamicMeasureManager._last_discovery
    measure_cache_file,  \* content of measure_cache.json
    mapping_file,        \* content of measure_mappings.json
    cached_tables,       \* ModelSchemaManager._cached_tables (dict, insertion order)
    schema_last_discovery, \* ModelSchemaManager._last_discovery
    schema_cache_file,   \* content of model_schema_cache.json
    builder_workspace_name, \* PowerBIContextBuilder.workspace_name
    builder_dataset_name,   \* PowerBIContextBuilder.dataset_name
    context_cache,       \* table context_cache of context_cache.sqlite, by id
    context_performance, \* table context_performance: its number of rows
    remote_history,      \* what the Power BI client has answered so far
    threads,             \* the calls in progress on other threads: position and locals
    last                 \* outcome of the last call, as its caller observes it

\* no call is in progress on another thread
NoThreads == << >>

measure_vars ==
    << cached_measures, measure_mappings, last_discovery, measure_cache_file,
       mapping_file >>

schema_vars == << cached_tables, schema_last_discovery, schema_cache_file >>

builder_vars ==
    << builder_workspace_name, builder_dataset_name, context_cache,
       context_performance >>

vars ==
    << now, measure_vars, schema_vars, builder_vars, remote_history, threads,
       last >>

---------------------------------------------------------------------------
(* Python str and dict primitives *)

\* Python's None
None == << "None" >>

UpperChars ==
    << "A","B","C","D","E","F","G","H","I","J","K","L","M",
       "N","O","P","Q","R","S","T","U","V","W","X","Y","Z" >>

LowerChars ==
    << "a","b","c","d","e","f","g","h","i","j","k","l","m",
       "n","o","p","q","r","s","t","u","v","w","x","y","z" >>

\* the lower-case letter of each upper-case one
ToLower ==
    [c \in { UpperChars[i] : i \in 1..26 } |->
        LowerChars[CHOOSE i \in 1..26 : UpperChars[i] = c]]

LowerChar(c) == IF c \in DOMAIN ToLower THEN ToLower[c] ELSE c

\* F(v) with v evaluated once, before F is entered (call by value)
Once(v, F(_)) == CHOOSE r \in { F(x) : x \in {v} } : TRUE

\* str.lower()
Lower(s) ==
    LET LowerTuple(x) == << >> \o [i \in 1..Len(x) |-> LowerChar(x[i])]
    IN  Once(s, LowerTuple)

\* `needle in hay` on strings
Contains(needle, hay) ==
    \E h \in {hay} :
        \E i \in 0..(Len(h) - Len(needle)) : SubSeq(h, i + 1, i + Len(needle)) = needle

\* any(kw in text for kw in kws)
AnyIn(kws, text) ==
    \E t \in {text} : \E i \in 1..Len(kws) : Contains(kws[i], t)

\* [kw for kw in kws if kw in text]
Filter(kws, text) ==
    LET Hits(t) == SelectSeq(kws, LAMBDA kw : Contains(kw, t))
    IN  Once(text, Hits)

\* a dict kept as the sequence of its items in insertion order: d[key] = item
\* replaces the item in place when the key is present and appends it otherwise
SeqDictSet(d, item) ==
    IF \E i \in 1..Len(d) : d[i].name = item.name
    THEN [i \in 1..Len(d) |-> IF d[i].name = item.name THEN item ELSE d[i]]
    ELSE Append(d, item)

\* a file that does not exist
NoFile == [exists |-> FALSE]

\* Optional[datetime] = None
NoTime == -1000

\* a confidence that is not a number (null in a cache file); comparing it or
\* multiplying it raises TypeError
NullConfidence == -1

\* index of the first element of s satisfying P, 0 if there is none
FirstIdx(s, P(_)) ==
    IF \E i \in 1..Len(s) : P(s[i])
    THEN CHOOSE i \in 1..Len(s) : P(s[i]) /\ \A j \in 1..(i - 1) : ~P(s[j])
    ELSE 0

---------------------------------------------------------------------------
(* config/constants.py *)

\* FINANCIAL_MEASURES: << generic name, its 'dax' entry >>, in source order
FINANCIAL_MEASURES ==
    << << <<"r","e","v","e","n","u","e">>, <<"[","R","e","v","e","n","u","e","]">> >>,
       << <<"r","e","v","e","n","u","e","_","p","y">>, <<"[","R","e","v"," ","P","Y","]">> >>,
       << <<"r","e","v","e","n","u","e","_","g","r","o","w","t","h">>, <<"[","Delta","R","e","v"," ","P","Y","%","]">> >>,
       << <<"g","r","o","s","s","_","p","r","o","f","i","t">>, <<"[","G","r","o","s","s"," ","P","r","o","f","i","t","]">> >>,
       << <<"g","r","o","s","s","_","p","r","o","f","i","t","_","p","c","t">>, <<"[","G","r","o","s","s"," ","P","r","o","f","i","t"," ","%","]">> >>,
       << <<"e","b","i","t","d","a">>, <<"[","E","B","I","T","D","A","]">> >>,
       << <<"e","b","i","t","d","a","_","p","c","t">>, <<"[","E","B","I","T","D","A"," ","%","]">> >>,
       << <<"n","e","t","_","p","r","o","f","i","t">>, <<"[","P","r","o","f","i","t"," ","N","e","t","]">> >>,
       << <<"c","a","s","h">>, <<"[","C","a","s","h","]">> >>,
       << <<"w","o","r","k","i","n","g","_","c","a","p","i","t","a","l">>, <<"[","W","o","r","k","i","n","g"," ","C","a","p","i","t","a","l","]">> >>,
       << <<"n","e","t","_","d","e","b","t">>, <<"[","N","e","t"," ","D","e","b","t","]">> >>,
       << <<"t","o","t","a","l","_","a","s","s","e","t","s">>, <<"[","T","o","t","a","l"," ","A","s","s","e","t","s","]">> >>,
       << <<"e","q","u","i","t","y">>, <<"[","E","q","u","i","t","y","]">> >>,
       << <<"f","i","x","e","d","_","a","s","s","e","t","s">>, <<"[","F","i","x","e","d"," ","A","s","s","e","t","s","]">> >>,
       << <<"a","m","o","u","n","t","_","p","y">>, <<"[","A","m","t"," ","P","Y","]">> >>,
       << <<"d","e","l","t","a","_","p","y">>, <<"[","Delta","A","m","t"," ","P","Y","]">> >>,
       << <<"d","e","l","t","a","_","p","y","_","p","c","t">>, <<"[","Delta","A","m","t"," ","P","Y","%","]">> >>,
       << <<"b","u","d","g","e","t">>, <<"[","B","d","g","t","]">> >>,
       << <<"d","e","l","t","a","_","b","u","d","g","e","t">>, <<"[","Delta","B","d","g","t","]">> >>,
       << <<"d","e","l","t","a","_","b","u","d","g","e","t","_","p","c","t">>, <<"[","Delta","B","d","g","t","%","]">> >>,
       << <<"f","o","r","e","c","a","s","t">>, <<"[","F","c","s","t","]">> >>,
       << <<"o","v","e","r","h","e","a","d">>, <<"[","O","v","e","r","h","e","a","d","]">> >>,
       << <<"o","v","e","r","h","e","a","d","_","p","c","t">>, <<"[","O","v","e","r","h","e","a","d"," ","%","]">> >> >>

\* generic_name in FINANCIAL_MEASURES
InFinancialMeasures(generic_name) ==
    \E i \in 1..Len(FINANCIAL_MEASURES) : FINANCIAL_MEASURES[i][1] = generic_name

\* FINANCIAL_MEASURES[generic_name].get('dax', ...): every entry has a 'dax'
FinancialMeasureDax(generic_name) ==
    FINANCIAL_MEASURES[CHOOSE i \in 1..Len(FINANCIAL_MEASURES) :
                           FINANCIAL_MEASURES[i][1] = generic_name][2]

---------------------------------------------------------------------------
(* config/dynamic_measures.py: DynamicMeasureManager *)

\* DiscoveredMeasure(name, formula, category, confidence, aliases)
DiscoveredMeasure(name, formula, category, confidence, aliases) ==
    [name |-> name, formula |-> formula, category |-> category,
     confidence |-> confidence, aliases |-> aliases]

revenue_keywords == << <<"r","e","v","e","n","u","e">>, <<"s","a","l","e","s">>, <<"i","n","c","o","m","e">>, <<"t","u","r","n","o","v","e","r">>, <<"r","e","c","e","i","p","t","s">> >>

profit_keywords == << <<"p","r","o","f","i","t">>, <<"m","a","r","g","i","n">>, <<"e","a","r","n","i","n","g","s">>, <<"e","b","i","t","d","a">>, <<"e","b","i","t">> >>

\* the sub-branches of the profit family
ProfitBranch(name_lower) ==
    IF Contains(<<"g","r","o","s","s">>, name_lower)
    THEN << <<"g","r","o","s","s","_","p","r","o","f","i","t">>, 85, << <<"g","r","o","s","s"," ","p","r","o","f","i","t">>, <<"g","p">> >> >>
    ELSE IF Contains(<<"e","b","i","t","d","a">>, name_lower)
    THEN << <<"e","b","i","t","d","a">>, 90, << <<"e","b","i","t","d","a">>, <<"o","p","e","r","a","t","i","n","g"," ","p","r","o","f","i","t">> >> >>
    ELSE IF Contains(<<"n","e","t">>, name_lower)
    THEN << <<"n","e","t","_","p","r","o","f","i","t">>, 85, << <<"n","e","t"," ","p","r","o","f","i","t">>, <<"n","e","t"," ","i","n","c","o","m","e">> >> >>
    ELSE << <<"p","r","o","f","i","t">>, 70, << >> >>

\* the if / elif chain of _categorize_measure over the lowered name
MeasureBranches(name_lower) ==
    IF AnyIn(revenue_keywords, name_lower)
    THEN << <<"r","e","v","e","n","u","e">>, 90, Filter(revenue_keywords, name_lower) >>
    ELSE IF AnyIn(profit_keywords, name_lower)
    THEN ProfitBranch(name_lower)
    ELSE IF AnyIn(<< <<"c","a","s","h">>, <<"l","i","q","u","i","d","i","t","y">> >>, name_lower)
    THEN << <<"c","a","s","h">>, 85, << <<"c","a","s","h">>, <<"l","i","q","u","i","d","i","t","y">> >> >>
    ELSE IF AnyIn(<< <<"a","s","s","e","t">>, <<"a","s","s","e","t","s">> >>, name_lower)
    THEN IF Contains(<<"t","o","t","a","l">>, name_lower)
         THEN << <<"t","o","t","a","l","_","a","s","s","e","t","s">>, 80, << <<"t","o","t","a","l"," ","a","s","s","e","t","s">> >> >>
         ELSE IF Contains(<<"f","i","x","e","d">>, name_lower) \/ Contains(<<"p","p","e">>, name_lower)
         THEN << <<"f","i","x","e","d","_","a","s","s","e","t","s">>, 80, << <<"f","i","x","e","d"," ","a","s","s","e","t","s">>, <<"p","p","e">> >> >>
         ELSE << <<"a","s","s","e","t","s">>, 60, << >> >>
    ELSE IF Contains(<<"w","o","r","k","i","n","g"," ","c","a","p","i","t","a","l">>, name_lower) \/ Contains(<<"w","c">>, name_lower)
    THEN << <<"w","o","r","k","i","n","g","_","c","a","p","i","t","a","l">>, 90, << <<"w","o","r","k","i","n","g"," ","c","a","p","i","t","a","l">>, <<"w","c">> >> >>
    ELSE IF AnyIn(<< <<"d","e","b","t">>, <<"l","i","a","b","i","l","i","t","i","e","s">> >>, name_lower)
    THEN << <<"n","e","t","_","d","e","b","t">>, 70, << <<"d","e","b","t">>, <<"l","i","a","b","i","l","i","t","i","e","s">> >> >>
    ELSE IF AnyIn(<< <<"e","q","u","i","t","y">>, <<"s","h","a","r","e","h","o","l","d","e","r","s">> >>, name_lower)
    THEN << <<"e","q","u","i","t","y">>, 80, << <<"e","q","u","i","t","y">>, <<"s","h","a","r","e","h","o","l","d","e","r","s"," ","e","q","u","i","t","y">> >> >>
    ELSE << <<"u","n","k","n","o","w","n">>, 10, << >> >>

\* _categorize_measure with the profit family checked before the revenue
\* family
CategorizeMeasure_ProfitFirst(measure_name, formula) ==
    LET Reordered(name_lower) ==
            IF AnyIn(profit_keywords, name_lower)
            THEN ProfitBranch(name_lower)
            ELSE MeasureBranches(name_lower)
    IN  Once(Lower(measure_name), Reordered)

\* _categorize_measure answering a name that matches no branch with
\* confidence 0.5
CategorizeMeasure_NoMatchHalf(measure_name, formula) ==
    LET Halved(name_lower) ==
            IF MeasureBranches(name_lower)[1] = <<"u","n","k","n","o","w","n">>
            THEN << <<"u","n","k","n","o","w","n">>, 50, << >> >>
            ELSE MeasureBranches(name_lower)
    IN  Once(Lower(measure_name), Halved)

\* _categorize_measure: << category, confidence, aliases >>.  The formula
\* argument is lowered and then never consulted.
CategorizeMeasure(measure_name, formula) ==
    Once(Lower(measure_name), MeasureBranches)

\* generic_name in self._measure_mappings
HasMapping(generic_name) == generic_name \in DOMAIN measure_mappings

\* get_measure_mapping with the discovered categories consulted before the
\* custom mappings
GetMeasureMapping_CategoryFirst(generic_name) ==
    LET ByCategory(m) == m.category = generic_name /\ m.confidence > 60
        Resolve(name_lower) ==
            LET ByAlias(m) == AnyIn(m.aliases, name_lower)
                c == FirstIdx(cached_measures, ByCategory)
                a == FirstIdx(cached_measures, ByAlias)
            IN  IF c # 0 THEN cached_measures[c].name
                ELSE IF HasMapping(generic_name) THEN measure_mappings[generic_name]
                ELSE IF a # 0 THEN cached_measures[a].name
                ELSE IF InFinancialMeasures(generic_name)
                     THEN FinancialMeasureDax(generic_name)
                ELSE None
    IN  Once(Lower(generic_name), Resolve)

\* get_measure_mapping with the confidence cutoff taken as >= 0.6
GetMeasureMapping_CutoffInclusive(generic_name) ==
    LET ByCategory(m) == m.category = generic_name /\ m.confidence >= 60
        Resolve(name_lower) ==
            LET ByAlias(m) == AnyIn(m.aliases, name_lower)
                c == FirstIdx(cached_measures, ByCategory)
                a == FirstIdx(cached_measures, ByAlias)
            IN  IF HasMapping(generic_name) THEN measure_mappings[generic_name]
                ELSE IF c # 0 THEN cached_measures[c].name
                ELSE IF a # 0 THEN cached_measures[a].name
                ELSE IF InFinancialMeasures(generic_name)
                     THEN FinancialMeasureDax(generic_name)
                ELSE None
    IN  Once(Lower(generic_name), Resolve)

\* get_measure_mapping: the actual measure name for a generic name, or None
GetMeasureMapping(generic_name) ==
    LET ByCategory(m) == m.category = generic_name /\ m.confidence > 60
        Resolve(name_lower) ==
            LET ByAlias(m) == AnyIn(m.aliases, name_lower)
                c == FirstIdx(cached_measures, ByCategory)
                a == FirstIdx(cached_measures, ByAlias)
            IN  IF HasMapping(generic_name) THEN measure_mappings[generic_name]
                ELSE IF c # 0 THEN cached_measures[c].name
                ELSE IF a # 0 THEN cached_measures[a].name
                ELSE IF InFinancialMeasures(generic_name)
                     THEN FinancialMeasureDax(generic_name)
                ELSE None
    IN  Once(Lower(generic_name), Resolve)

\* self._measure_mappings[generic_name] = actual_measure_name
DictSet(d, k, v) == [x \in (DOMAIN d) \cup {k} |-> IF x = k THEN v ELSE d[x]]

cache_expiry_hours == 24

\* _load_cache: the cached dict and the last discovery time after
\* construction; a file older than cache_expiry_hours is not loaded
LoadMeasureCache(file, t) ==
    IF file.exists /\ t - file.timestamp < cache_expiry_hours
    THEN [measures |-> file.measures, last_discovery |-> file.timestamp]
    ELSE [measures |-> << >>, last_discovery |-> NoTime]

\* _load_mappings
LoadMappings(file) == IF file.exists THEN file.mappings ELSE << >>

\* DynamicMeasureManager.__init__ at time t over the two files
InitMeasureManager(cache_file, mappings_file, t) ==
    /\ measure_cache_file = cache_file
    /\ mapping_file = mappings_file
    /\ cached_measures = LoadMeasureCache(cache_file, t).measures
    /\ last_discovery = LoadMeasureCache(cache_file, t).last_discovery
    /\ measure_mappings = LoadMappings(mappings_file)

\* the parsing loops keeping every named row, marker or not
RECURSIVE ParseMeasureRows_NoMarker(_, _)
ParseMeasureRows_NoMarker(rows, discovered_measures) ==
    IF rows = << >> THEN discovered_measures
    ELSE LET row == Head(rows)
             measure_name == row.name
             description == row.description
             combined_text == Lower(measure_name \o <<" ">> \o description)
             Measure(c) == DiscoveredMeasure(measure_name, description,
                                             c[1], c[2], c[3])
         IN  IF measure_name # << >>
             THEN ParseMeasureRows_NoMarker(Tail(rows),
                      SeqDictSet(discovered_measures,
                          Once(CategorizeMeasure(measure_name, combined_text),
                               Measure)))
             ELSE ParseMeasureRows_NoMarker(Tail(rows), discovered_measures)

\* the two parsing loops of discover_measures_from_model: rows to the dict of
\* the measures whose name carries the "_AI" marker
RECURSIVE ParseMeasureRows(_, _)
ParseMeasureRows(rows, discovered_measures) ==
    IF rows = << >> THEN discovered_measures
    ELSE LET row == Head(rows)
             measure_name == row.name
             description == row.description
             combined_text == Lower(measure_name \o <<" ">> \o description)
             Measure(c) == DiscoveredMeasure(measure_name, description,
                                             c[1], c[2], c[3])
         IN  IF measure_name # << >> /\ Contains(<<"_","A","I">>, measure_name)
             THEN ParseMeasureRows(Tail(rows),
                      SeqDictSet(discovered_measures,
                          Once(CategorizeMeasure(measure_name, combined_text),
                               Measure)))
             ELSE ParseMeasureRows(Tail(rows), discovered_measures)

\* the measures parsed out of a query result.  A result is either the custom
\* format (a list whose first element may hold 'rows') or the original format
\* (a dict with 'results', whose first result may hold tables with 'rows');
\* the original format is only tried when the custom one produced nothing.
ParseMeasuresResult(measures_result) ==
    LET custom ==
            IF measures_result.format = "list" /\ measures_result.has_rows
            THEN ParseMeasureRows(measures_result.rows, << >>)
            ELSE << >>
    IN  IF custom = << >> /\ measures_result.format = "dict"
           /\ measures_result.has_rows
        THEN ParseMeasureRows(measures_result.rows, custom)
        ELSE custom

\* _save_cache: the whole dict under a fresh timestamp
SaveMeasureCache(measures) ==
    [exists |-> TRUE, timestamp |-> now, measures |-> measures]

\* the client calls of one discover_measures_from_model, in order; the last
\* three are the additional (non-critical) context queries
MeasureDiscoveryCalls ==
    << "get_workspace_by_name", "get_dataset_by_name", "measures_query",
       "tables_query", "columns_query", "relationships_query" >>

\* number of client calls made when the call at position fail_at raises
\* (0: none raises).  A failure among the additional queries skips the rest
\* of them.
ClientCalls(calls, fail_at) == IF fail_at = 0 THEN Len(calls) ELSE fail_at

\* the client after one more discovery whose call at position fail_at raised:
\* "unused" before any call, "all_failed" while every call made has raised,
\* "answered" once a call has returned
RemoteHistory(fail_at) ==
    IF fail_at = 1 /\ remote_history # "answered" THEN "all_failed"
    ELSE "answered"

\* a dict result whose 'results' list is empty: results[0] raises IndexError
ParseRaises(result) == result.format = "dict_no_results"

\* discover_measures_from_model with the cache-or-refresh gate: an unexpired
\* cache answers a call that does not force a refresh
DiscoverMeasures_CacheGate(workspace_name, dataset_name, force_refresh, remote) ==
    LET parse_raises == remote.fail_at \notin 1..3 /\ ParseRaises(remote.result)
        critical == remote.fail_at \in 1..3 \/ parse_raises
        use_cache == /\ ~force_refresh
                     /\ last_discovery # NoTime
                     /\ now - last_discovery < cache_expiry_hours
    IN  \E discovered_measures \in { ParseMeasuresResult(remote.result) } :
        IF use_cache
        THEN /\ last' = [op |-> "discover_measures",
                         workspace |-> workspace_name,
                         dataset |-> dataset_name,
                         force_refresh |-> force_refresh,
                         remote |-> remote,
                         at |-> now,
                         before |-> [cached |-> cached_measures,
                                     last_discovery |-> last_discovery],
                         client_calls |-> 0,
                         raised |-> "",
                         logged |-> "",
                         result |-> cached_measures]
             /\ UNCHANGED << now, measure_vars, schema_vars, builder_vars,
                             remote_history, threads >>
        ELSE
        /\ cached_measures' = IF critical THEN cached_measures
                                          ELSE discovered_measures
        /\ last_discovery' = IF critical THEN last_discovery ELSE now
        /\ measure_cache_file' = IF critical THEN measure_cache_file
                                             ELSE SaveMeasureCache(discovered_measures)
        /\ last' = [op |-> "discover_measures",
                    workspace |-> workspace_name,
                    dataset |-> dataset_name,
                    force_refresh |-> force_refresh,
                    remote |-> remote,
                    at |-> now,
                    before |-> [cached |-> cached_measures,
                                last_discovery |-> last_discovery],
                    client_calls |-> IF parse_raises THEN 3
                                    ELSE ClientCalls(MeasureDiscoveryCalls, remote.fail_at),
                    raised |-> "",
                    logged |-> IF parse_raises THEN "IndexError"
                               ELSE IF remote.fail_at = 0 THEN "" ELSE remote.error,
                    result |-> IF critical THEN << >> ELSE discovered_measures]
        /\ remote_history' = RemoteHistory(remote.fail_at)
        /\ UNCHANGED threads
        /\ UNCHANGED << now, measure_mappings, mapping_file, schema_vars,
                   builder_vars >>

\* discover_measures_from_model letting a failed workspace or dataset lookup
\* escape to the caller
DiscoverMeasures_Propagates(workspace_name, dataset_name, force_refresh, remote) ==
    LET parse_raises == remote.fail_at \notin 1..3 /\ ParseRaises(remote.result)
        critical == remote.fail_at \in 1..3 \/ parse_raises
    IN  \E discovered_measures \in { ParseMeasuresResult(remote.result) } :
        /\ cached_measures' = IF critical THEN cached_measures
                                          ELSE discovered_measures
        /\ last_discovery' = IF critical THEN last_discovery ELSE now
        /\ measure_cache_file' = IF critical THEN measure_cache_file
                                             ELSE SaveMeasureCache(discovered_measures)
        /\ last' = [op |-> "discover_measures",
                    workspace |-> workspace_name,
                    dataset |-> dataset_name,
                    force_refresh |-> force_refresh,
                    remote |-> remote,
                    at |-> now,
                    before |-> [cached |-> cached_measures,
                                last_discovery |-> last_discovery],
                    client_calls |-> IF parse_raises THEN 3
                                    ELSE ClientCalls(MeasureDiscoveryCalls, remote.fail_at),
                    raised |-> IF remote.fail_at \in 1..2 THEN remote.error ELSE "",
                    logged |-> IF parse_raises THEN "IndexError"
                               ELSE IF remote.fail_at = 0 THEN "" ELSE remote.error,
                    result |-> IF critical THEN << >> ELSE discovered_measures]
        /\ remote_history' = RemoteHistory(remote.fail_at)
        /\ UNCHANGED threads
        /\ UNCHANGED << now, measure_mappings, mapping_file, schema_vars,
                   builder_vars >>

\* discover_measures_from_model emptying the in-memory map when a critical
\* client call raises
DiscoverMeasuresOver_DropsOnFailure(workspace_name, dataset_name, force_refresh, remote, write_ok) ==
    LET parse_raises == remote.fail_at \notin 1..3 /\ ParseRaises(remote.result)
        critical == remote.fail_at \in 1..3 \/ parse_raises
    IN  \E discovered_measures \in { ParseMeasuresResult(remote.result) } :
        /\ cached_measures' = IF critical THEN << >>
                                          ELSE discovered_measures
        /\ last_discovery' = IF critical THEN last_discovery ELSE now
        /\ measure_cache_file' = IF critical \/ ~write_ok THEN measure_cache_file
                                 ELSE SaveMeasureCache(discovered_measures)
        /\ last' = [op |-> "discover_measures",
                    workspace |-> workspace_name,
                    dataset |-> dataset_name,
                    force_refresh |-> force_refresh,
                    remote |-> remote,
                    write_ok |-> write_ok,
                    at |-> now,
                    before |-> [cached |-> cached_measures,
                                last_discovery |-> last_discovery,
                                file |-> measure_cache_file],
                    client_calls |-> IF parse_raises THEN 3
                                    ELSE ClientCalls(MeasureDiscoveryCalls, remote.fail_at),
                    raised |-> "",
                    logged |-> IF parse_raises THEN "IndexError"
                               ELSE IF remote.fail_at \in 1..3 THEN remote.error
                               ELSE IF ~write_ok THEN "PermissionError"
                               ELSE IF remote.fail_at = 0 THEN "" ELSE remote.error,
                    result |-> IF critical THEN << >> ELSE discovered_measures]
        /\ remote_history' = RemoteHistory(remote.fail_at)
        /\ UNCHANGED threads
        /\ UNCHANGED << now, measure_mappings, mapping_file, schema_vars,
                   builder_vars >>

\* discover_measures_from_model when the cache file may be unwritable:
\* with ~write_ok the open(cache_file, 'w') of _save_cache raises, _save_cache
\* logs the error and the call goes on
DiscoverMeasuresOver(workspace_name, dataset_name, force_refresh, remote, write_ok) ==
    LET parse_raises == remote.fail_at \notin 1..3 /\ ParseRaises(remote.result)
        critical == remote.fail_at \in 1..3 \/ parse_raises
    IN  \E discovered_measures \in { ParseMeasuresResult(remote.result) } :
        /\ cached_measures' = IF critical THEN cached_measures
                                          ELSE discovered_measures
        /\ last_discovery' = IF critical THEN last_discovery ELSE now
        /\ measure_cache_file' = IF critical \/ ~write_ok THEN measure_cache_file
                                 ELSE SaveMeasureCache(discovered_measures)
        /\ last' = [op |-> "discover_measures",
                    workspace |-> workspace_name,
                    dataset |-> dataset_name,
                    force_refresh |-> force_refresh,
                    remote |-> remote,
                    write_ok |-> write_ok,
                    at |-> now,
                    before |-> [cached |-> cached_measures,
                                last_discovery |-> last_discovery,
                                file |-> measure_cache_file],
                    client_calls |-> IF parse_raises THEN 3
                                    ELSE ClientCalls(MeasureDiscoveryCalls, remote.fail_at),
                    raised |-> "",
                    logged |-> IF parse_raises THEN "IndexError"
                               ELSE IF remote.fail_at \in 1..3 THEN remote.error
                               ELSE IF ~write_ok THEN "PermissionError"
                               ELSE IF remote.fail_at = 0 THEN "" ELSE remote.error,
                    result |-> IF critical THEN << >> ELSE discovered_measures]
        /\ remote_history' = RemoteHistory(remote.fail_at)
        /\ UNCHANGED threads
        /\ UNCHANGED << now, measure_mappings, mapping_file, schema_vars,
                   builder_vars >>

\* discover_measures_from_model(workspace_name, dataset_name, force_refresh).
\* remote.fail_at is the position in MeasureDiscoveryCalls of the client call
\* that raises remote.error (0: none), remote.result the measures query result.
\* force_refresh is accepted and never read.
DiscoverMeasures(workspace_name, dataset_name, force_refresh, remote) ==
    LET parse_raises == remote.fail_at \notin 1..3 /\ ParseRaises(remote.result)
        critical == remote.fail_at \in 1..3 \/ parse_raises
    IN  \E discovered_measures \in { ParseMeasuresResult(remote.result) } :
        /\ cached_measures' = IF critical THEN cached_measures
                                          ELSE discovered_measures
        /\ last_discovery' = IF critical THEN last_discovery ELSE now
        /\ measure_cache_file' = IF critical THEN measure_cache_file
                                             ELSE SaveMeasureCache(discovered_measures)
        /\ last' = [op |-> "discover_measures",
                    workspace |-> workspace_name,
                    dataset |-> dataset_name,
                    force_refresh |-> force_refresh,
                    remote |-> remote,
                    at |-> now,
                    before |-> [cached |-> cached_measures,
                                last_discovery |-> last_discovery],
                    client_calls |-> IF parse_raises THEN 3
                                    ELSE ClientCalls(MeasureDiscoveryCalls, remote.fail_at),
                    raised |-> "",
                    logged |-> IF parse_raises THEN "IndexError"
                               ELSE IF remote.fail_at = 0 THEN "" ELSE remote.error,
                    result |-> IF critical THEN << >> ELSE discovered_measures]
        /\ remote_history' = RemoteHistory(remote.fail_at)
        /\ UNCHANGED threads
        /\ UNCHANGED << now, measure_mappings, mapping_file, schema_vars,
                   builder_vars >>

\* save_custom_mapping keeping a mapping that already exists (dict.setdefault)
SaveCustomMapping_KeepExisting(generic_name, actual_measure_name, write_ok) ==
    /\ measure_mappings' = IF HasMapping(generic_name) THEN measure_mappings
                            ELSE DictSet(measure_mappings, generic_name,
                                         actual_measure_name)
    /\ mapping_file' = IF write_ok THEN [exists |-> TRUE, mappings |-> measure_mappings']
                                   ELSE mapping_file
    /\ last' = [op |-> "save_custom_mapping", generic_name |-> generic_name,
                actual_measure_name |-> actual_measure_name, result |-> write_ok,
                before |-> [mappings |-> measure_mappings, file |-> mapping_file]]
    /\ UNCHANGED << now, cached_measures, last_discovery, measure_cache_file,
                   schema_vars, builder_vars, remote_history, threads >>

\* save_custom_mapping(generic_name, actual_measure_name).  write_ok: whether
\* opening and writing measure_mappings.json succeeds; the in-memory dict is
\* assigned before the file is opened.
SaveCustomMapping(generic_name, actual_measure_name, write_ok) ==
    /\ measure_mappings' = DictSet(measure_mappings, generic_name, actual_measure_name)
    /\ mapping_file' = IF write_ok THEN [exists |-> TRUE, mappings |-> measure_mappings']
                                   ELSE mapping_file
    /\ last' = [op |-> "save_custom_mapping", generic_name |-> generic_name,
                actual_measure_name |-> actual_measure_name, result |-> write_ok,
                before |-> [mappings |-> measure_mappings, file |-> mapping_file]]
    /\ UNCHANGED << now, cached_measures, last_discovery, measure_cache_file,
                   schema_vars, builder_vars, remote_history, threads >>

\* discover_measures_from_model called on the module's one manager by a
\* thread of its own, statement by statement.  threads[t] holds the position
\* of thread t and its locals.

\* the client answers the thread's queries and the rows are parsed into the
\* local discovered_measures
DiscoverBegin(t, measures_result) ==
    /\ t \notin DOMAIN threads
    /\ threads' = [u \in DOMAIN threads \cup {t} |->
                     IF u = t
                     THEN [pc |-> "assign",
                           discovered_measures |-> ParseMeasuresResult(measures_result),
                           cache_data |-> NoFile]
                     ELSE threads[u]]
    /\ remote_history' = RemoteHistory(0)
    /\ UNCHANGED << now, measure_vars, schema_vars, builder_vars, last >>

\* self._cached_measures = discovered_measures
DiscoverAssign(t) ==
    /\ t \in DOMAIN threads
    /\ threads[t].pc = "assign"
    /\ cached_measures' = threads[t].discovered_measures
    /\ threads' = [threads EXCEPT ![t].pc = "stamp"]
    /\ UNCHANGED << now, measure_mappings, last_discovery, measure_cache_file,
                    mapping_file, schema_vars, builder_vars, remote_history, last >>

\* self._last_discovery = datetime.now()
DiscoverStamp(t) ==
    /\ t \in DOMAIN threads
    /\ threads[t].pc = "stamp"
    /\ last_discovery' = now
    /\ threads' = [threads EXCEPT ![t].pc = "save"]
    /\ UNCHANGED << now, cached_measures, measure_mappings, measure_cache_file,
                    mapping_file, schema_vars, builder_vars, remote_history, last >>

\* _save_cache: cache_data is built from self._cached_measures as it is now
DiscoverSnapshot(t) ==
    /\ t \in DOMAIN threads
    /\ threads[t].pc = "save"
    /\ threads' = [threads EXCEPT ![t].pc = "write",
                                  ![t].cache_data = SaveMeasureCache(cached_measures)]
    /\ UNCHANGED << now, measure_vars, schema_vars, builder_vars, remote_history,
                    last >>

\* _save_cache: open(cache_file, 'w'), json.dump, close, taken as one step
DiscoverWrite(t) ==
    /\ t \in DOMAIN threads
    /\ threads[t].pc = "write"
    /\ measure_cache_file' = threads[t].cache_data
    /\ threads' = [threads EXCEPT ![t].pc = "return"]
    /\ UNCHANGED << now, cached_measures, measure_mappings, last_discovery,
                    mapping_file, schema_vars, builder_vars, remote_history, last >>

\* return discovered_measures
DiscoverReturn(t) ==
    /\ t \in DOMAIN threads
    /\ threads[t].pc = "return"
    /\ threads' = [threads EXCEPT ![t].pc = "done"]
    /\ last' = [op |-> "discover_measures", thread |-> t, at |-> now,
                raised |-> "", result |-> threads[t].discovered_measures]
    /\ UNCHANGED << now, measure_vars, schema_vars, builder_vars, remote_history >>

\* a caller asks get_measure_mapping(generic_name)
LookupMeasureMapping(generic_name) ==
    /\ last' = [op |-> "get_measure_mapping", generic_name |-> generic_name,
                result |-> GetMeasureMapping(generic_name)]
    /\ UNCHANGED << now, measure_vars, schema_vars, builder_vars,
                   remote_history, threads >>

---------------------------------------------------------------------------
(* config/model_schema.py: ModelSchemaManager *)

\* TableSchema(name, columns, relationships, is_fact_table, confidence)
TableSchema(name, columns, is_fact_table, confidence) ==
    [name |-> name, columns |-> columns, relationships |-> << >>,
     is_fact_table |-> is_fact_table, confidence |-> confidence]

fact_indicators == << <<"j","o","u","r","n","a","l">>, <<"t","r","a","n","s","a","c","t","i","o","n">>, <<"e","n","t","r","y">>, <<"l","i","n","e">>, <<"f","a","c","t">> >>

dimension_indicators ==
    << <<"d","i","m">>, <<"_","d","a","t","e">>, <<"_","p","e","r","i","o","d">>, <<"a","c","c","o","u","n","t">>, <<"c","o","n","t","a","c","t">>, <<"m","a","p","p","i","n","g">> >>

value_indicators == << <<"a","m","o","u","n","t">>, <<"v","a","l","u","e">>, <<"q","u","a","n","t","i","t","y">>, <<"b","a","l","a","n","c","e">> >>

\* str.endswith
EndsWith(s, suffix) ==
    /\ Len(suffix) <= Len(s)
    /\ SubSeq(s, Len(s) - Len(suffix) + 1, Len(s)) = suffix

\* str.startswith
StartsWith(s, prefix) ==
    /\ Len(prefix) <= Len(s)
    /\ SubSeq(s, 1, Len(prefix)) = prefix

Min(a, b) == IF a <= b THEN a ELSE b

---------------------------------------------------------------------------
(* Python floats: IEEE-754 binary64, round to nearest, ties to even.        *)
(* A float x of magnitude below 4 that is a multiple of 2^-56 is the pair   *)
(* << hi, lo >> with x = (hi * 2^28 + lo) * 2^-56 and 0 <= lo < 2^28.       *)

FloatBase == 268435456

\* the pair of the number hi * 2^28 + lo, for any integer lo
FloatNorm(hi, lo) == << hi + (lo \div FloatBase), lo % FloatBase >>

\* the int 0 that fact_score starts from, as a float
FloatZero == << 0, 0 >>

\* the literals of _categorize_table and discover_model_schema
\* 0.1 = 0x1.999999999999ap-4
Float_0_1 == << 26843545, 161061274 >>

\* 0.2 = 0x1.999999999999ap-3
Float_0_2 == << 53687091, 53687092 >>

\* 0.3 = 0x1.3333333333333p-2
Float_0_3 == << 80530636, 214748364 >>

\* 0.4 = 0x1.999999999999ap-2
Float_0_4 == << 107374182, 107374184 >>

\* 0.5 = 0x1.0p-1
Float_0_5 == << 134217728, 0 >>

\* 0.8 = 0x1.999999999999ap-1
Float_0_8 == << 214748364, 214748368 >>

\* 1.0
Float_1_0 == << 268435456, 0 >>

\* a table confidence that is not a number (null in a cache file)
NullFloat == << NullConfidence, NullConfidence >>

\* -x
FloatNeg(x) == FloatNorm(-x[1], -x[2])

\* x < y
FloatLess(x, y) == x[1] < y[1] \/ (x[1] = y[1] /\ x[2] < y[2])

FloatAbs(x) == IF x[1] < 0 THEN FloatNeg(x) ELSE x

\* the exact sum, before rounding
FloatExactAdd(x, y) == FloatNorm(x[1] + y[1], x[2] + y[2])

\* the exact n * x for a small natural n, before rounding
RECURSIVE FloatTimes(_, _)
FloatTimes(n, x) == IF n = 0 THEN FloatZero ELSE FloatExactAdd(FloatTimes(n - 1, x), x)

\* 2 * x, exact
FloatDouble(x) == FloatNorm(2 * x[1], 2 * x[2])

\* y / 2 for an even y, exact
FloatHalve(y) == << y[1] \div 2, (y[1] % 2) * (FloatBase \div 2) + (y[2] \div 2) >>

\* spacing, in units of 2^-57, of the floats around the exact value y given
\* in units of 2^-57: 53 significant bits
FloatSpacing(y) ==
    LET h == FloatAbs(y)[1]
    IN  IF h >= 2^30 THEN 64
        ELSE IF h >= 2^29 THEN 32
        ELSE IF h >= 2^28 THEN 16
        ELSE IF h >= 2^27 THEN 8
        ELSE IF h >= 2^26 THEN 4
        ELSE 2

\* rounding of an exact result to the nearest float, ties to even.  y is the
\* exact value in units of 2^-57 with its lower bits cut off, sticky tells
\* whether any cut-off bit was set (only for y >= 0).
FloatRound(y, sticky) ==
    LET G == FloatSpacing(y)
        r == y[2] % G
        down == y[2] - r
        pick == IF 2 * r < G \/ (2 * r = G /\ ~sticky /\ (y[2] \div G) % 2 = 0)
                THEN down ELSE down + G
    IN  FloatHalve(FloatNorm(y[1], pick))

\* x + y
FloatAdd(x, y) == FloatRound(FloatDouble(FloatExactAdd(x, y)), FALSE)

\* x - y
FloatSub(x, y) == FloatAdd(x, FloatNeg(y))

\* n * x for an int n: n converts exactly, the product is rounded once
IntTimesFloat(n, x) == FloatRound(FloatDouble(FloatTimes(n, x)), FALSE)

FloatLimbBase == 16384

\* the four 14-bit limbs of x >= 0, lowest first
FloatLimbs(x) ==
    << x[2] % FloatLimbBase, x[2] \div FloatLimbBase,
       x[1] % FloatLimbBase, x[1] \div FloatLimbBase >>

\* x * y for 0 <= x <= 2 and 0 <= y < 1 with x * y >= 1/16: the exact
\* 112-bit product by columns of limb products, then one rounding
FloatMul(x, y) ==
    LET a == FloatLimbs(x)
        b == FloatLimbs(y)
        Col(k) == LET I == { i \in 1..4 : k + 2 - i \in 1..4 }
                      RECURSIVE Sum(_)
                      Sum(S) == IF S = {} THEN 0
                                ELSE LET i == CHOOSE i \in S : TRUE
                                     IN  a[i] * b[k + 2 - i] + Sum(S \ {i})
                  IN  Sum(I)
        t0 == Col(0)
        t1 == Col(1) + (t0 \div FloatLimbBase)
        t2 == Col(2) + (t1 \div FloatLimbBase)
        t3 == Col(3) + (t2 \div FloatLimbBase)
        t4 == Col(4) + (t3 \div FloatLimbBase)
        t5 == Col(5) + (t4 \div FloatLimbBase)
        t6 == Col(6) + (t5 \div FloatLimbBase)
        p3 == t3 % FloatLimbBase
        half == IF p3 >= FloatLimbBase \div 2 THEN 1 ELSE 0
        sticky == \/ p3 % (FloatLimbBase \div 2) # 0
                  \/ t2 % FloatLimbBase # 0
                  \/ t1 % FloatLimbBase # 0
                  \/ t0 % FloatLimbBase # 0
        hi == (t6 \div FloatLimbBase) * FloatLimbBase + (t6 % FloatLimbBase)
        lo == (t5 % FloatLimbBase) * FloatLimbBase + (t4 % FloatLimbBase)
    IN  FloatRound(FloatNorm(2 * hi, 2 * lo + half), sticky)

\* max(a, b): a unless b is larger
FloatMax(a, b) == IF FloatLess(a, b) THEN b ELSE a

\* min(a, b): a unless b is smaller
FloatMin(a, b) == IF FloatLess(b, a) THEN b ELSE a

---------------------------------------------------------------------------

\* _categorize_table with the bounds of the clamp swapped
CategorizeTable_ClampSwapped(table_name, columns) ==
    LET name_lower == Lower(table_name)
        columns_lower == [i \in 1..Len(columns) |-> Lower(columns[i])]
        value_columns ==
            SelectSeq(columns_lower, LAMBDA col : AnyIn(value_indicators, col))
        id_columns ==
            SelectSeq(columns_lower,
                      LAMBDA col : EndsWith(col, <<" ","i","d">>) \/ EndsWith(col, <<"i","d">>))
        s1 == IF AnyIn(fact_indicators, name_lower)
              THEN FloatAdd(FloatZero, Float_0_4) ELSE FloatZero
        s2 == IF value_columns # << >>
              THEN FloatAdd(s1, FloatAdd(Float_0_3,
                                         IntTimesFloat(Len(value_columns), Float_0_1)))
              ELSE s1
        s3 == IF Len(id_columns) >= 3 THEN FloatAdd(s2, Float_0_2) ELSE s2
        s4 == IF AnyIn(dimension_indicators, name_lower)
              THEN FloatSub(s3, Float_0_3) ELSE s3
        fact_score == IF Len(columns) < 5 THEN FloatSub(s4, Float_0_1) ELSE s4
    IN  << FloatLess(Float_0_5, fact_score),
           FloatMin(FloatMax(fact_score, Float_1_0), Float_0_1) >>

\* _categorize_table: << is_fact, confidence >>
CategorizeTable(table_name, columns) ==
    LET name_lower == Lower(table_name)
        columns_lower == [i \in 1..Len(columns) |-> Lower(columns[i])]
        value_columns ==
            SelectSeq(columns_lower, LAMBDA col : AnyIn(value_indicators, col))
        id_columns ==
            SelectSeq(columns_lower,
                      LAMBDA col : EndsWith(col, <<" ","i","d">>) \/ EndsWith(col, <<"i","d">>))
        s1 == IF AnyIn(fact_indicators, name_lower)
              THEN FloatAdd(FloatZero, Float_0_4) ELSE FloatZero
        s2 == IF value_columns # << >>
              THEN FloatAdd(s1, FloatAdd(Float_0_3,
                                         IntTimesFloat(Len(value_columns), Float_0_1)))
              ELSE s1
        s3 == IF Len(id_columns) >= 3 THEN FloatAdd(s2, Float_0_2) ELSE s2
        s4 == IF AnyIn(dimension_indicators, name_lower)
              THEN FloatSub(s3, Float_0_3) ELSE s3
        fact_score == IF Len(columns) < 5 THEN FloatSub(s4, Float_0_1) ELSE s4
    IN  << FloatLess(Float_0_5, fact_score),
           FloatMin(FloatMax(fact_score, Float_0_1), Float_1_0) >>

\* ModelSchemaManager._load_cache
LoadSchemaCache(file, t) ==
    IF file.exists /\ t - file.timestamp < cache_expiry_hours
    THEN [tables |-> file.tables, last_discovery |-> file.timestamp]
    ELSE [tables |-> << >>, last_discovery |-> NoTime]

\* ModelSchemaManager.__init__ at time t
InitSchemaManager(cache_file, t) ==
    /\ schema_cache_file = cache_file
    /\ cached_tables = LoadSchemaCache(cache_file, t).tables
    /\ schema_last_discovery = LoadSchemaCache(cache_file, t).last_discovery

\* ModelSchemaManager._save_cache
SaveSchemaCache(tables) ==
    [exists |-> TRUE, timestamp |-> now, tables |-> tables]

\* rows of a query result in either format: the custom format (a list whose
\* first element may hold 'rows') or else the original one (a dict with
\* 'results')
ResultRows(result) ==
    IF result.format \in {"list", "dict"} /\ result.has_rows THEN result.rows
    ELSE << >>

\* table_info: the names of the described tables, in first-seen order
RECURSIVE TableInfoKeys(_, _)
TableInfoKeys(rows, keys) ==
    IF rows = << >> THEN keys
    ELSE LET table_name == Head(rows).name
         IN  IF table_name # << >> /\ ~\E i \in 1..Len(keys) : keys[i] = table_name
             THEN TableInfoKeys(Tail(rows), Append(keys, table_name))
             ELSE TableInfoKeys(Tail(rows), keys)

\* table_columns: per table name in first-seen order, its column names in
\* row order, as the items [name, columns] of the dict
RECURSIVE TableColumns(_, _)
TableColumns(rows, acc) ==
    IF rows = << >> THEN acc
    ELSE LET table_name == Head(rows).table
             column_name == Head(rows).name
             i == FirstIdx(acc, LAMBDA e : e.name = table_name)
         IN  IF table_name # << >> /\ column_name # << >>
             THEN TableColumns(Tail(rows),
                      IF i = 0
                      THEN Append(acc, [name |-> table_name,
                                        columns |-> << column_name >>])
                      ELSE [acc EXCEPT ![i].columns = Append(@, column_name)])
             ELSE TableColumns(Tail(rows), acc)

\* table_columns.get(table_name, [])
ColumnsOf(table_columns, table_name) ==
    LET i == FirstIdx(table_columns, LAMBDA e : e.name = table_name)
    IN  IF i = 0 THEN << >> ELSE table_columns[i].columns

\* confidence * 0.5
ScaleNoDescription_Half(confidence) == FloatMul(confidence, Float_0_5)

\* confidence * 0.8
ScaleNoDescription(confidence) == FloatMul(confidence, Float_0_8)

\* "Create TableSchema objects": the described tables first, then the tables
\* that only the columns query knows, at 0.8 of their confidence
BuildTables(table_info, table_columns) ==
    LET described ==
            [i \in 1..Len(table_info) |->
                LET columns == ColumnsOf(table_columns, table_info[i])
                    c == CategorizeTable(table_info[i], columns)
                IN  TableSchema(table_info[i], columns, c[1], c[2])]
        others ==
            SelectSeq(table_columns,
                      LAMBDA e : ~\E i \in 1..Len(table_info) : table_info[i] = e.name)
    IN  described \o
        [i \in 1..Len(others) |->
            LET c == CategorizeTable(others[i].name, others[i].columns)
            IN  TableSchema(others[i].name, others[i].columns, c[1],
                            ScaleNoDescription(c[2]))]

\* the client calls of one discover_model_schema, in order
SchemaDiscoveryCalls ==
    << "get_workspace_by_name", "get_dataset_by_name", "tables_query",
       "columns_query" >>

\* discover_model_schema treating a failed columns query as non-critical
DiscoverSchema_ColumnsOptional(workspace_name, dataset_name, force_refresh, remote) ==
    LET parse_raises == remote.fail_at = 0
                        /\ (ParseRaises(remote.tables) \/ ParseRaises(remote.columns))
        failed == remote.fail_at \in 1..3 \/ parse_raises
    IN  \E discovered_tables \in
            { BuildTables(TableInfoKeys(ResultRows(remote.tables), << >>),
                          TableColumns(IF remote.fail_at = 4 THEN << >>
                                       ELSE ResultRows(remote.columns), << >>)) } :
        /\ cached_tables' = IF failed THEN cached_tables ELSE discovered_tables
        /\ schema_last_discovery' = IF failed THEN schema_last_discovery ELSE now
        /\ schema_cache_file' = IF failed THEN schema_cache_file
                                          ELSE SaveSchemaCache(discovered_tables)
        /\ last' = [op |-> "discover_schema",
                    workspace |-> workspace_name,
                    dataset |-> dataset_name,
                    force_refresh |-> force_refresh,
                    remote |-> remote,
                    at |-> now,
                    before |-> [cached |-> cached_tables,
                                last_discovery |-> schema_last_discovery],
                    client_calls |-> ClientCalls(SchemaDiscoveryCalls, remote.fail_at),
                    raised |-> "",
                    logged |-> IF parse_raises THEN "IndexError"
                               ELSE IF failed THEN remote.error ELSE "",
                    result |-> IF failed THEN << >> ELSE discovered_tables]
        /\ remote_history' = RemoteHistory(remote.fail_at)
        /\ UNCHANGED threads
        /\ UNCHANGED << now, measure_vars, builder_vars >>

\* discover_model_schema when the cache file may be unwritable: with
\* ~write_ok the open(cache_file, 'w') of _save_cache raises, _save_cache logs
\* the error and the call goes on
DiscoverSchemaOver(workspace_name, dataset_name, force_refresh, remote, write_ok) ==
    LET parse_raises == remote.fail_at = 0
                        /\ (ParseRaises(remote.tables) \/ ParseRaises(remote.columns))
        failed == remote.fail_at # 0 \/ parse_raises
    IN  \E discovered_tables \in
            { BuildTables(TableInfoKeys(ResultRows(remote.tables), << >>),
                          TableColumns(ResultRows(remote.columns), << >>)) } :
        /\ cached_tables' = IF failed THEN cached_tables ELSE discovered_tables
        /\ schema_last_discovery' = IF failed THEN schema_last_discovery ELSE now
        /\ schema_cache_file' = IF failed \/ ~write_ok THEN schema_cache_file
                                ELSE SaveSchemaCache(discovered_tables)
        /\ last' = [op |-> "discover_schema",
                    workspace |-> workspace_name,
                    dataset |-> dataset_name,
                    force_refresh |-> force_refresh,
                    remote |-> remote,
                    write_ok |-> write_ok,
                    at |-> now,
                    before |-> [cached |-> cached_tables,
                                last_discovery |-> schema_last_discovery,
                                file |-> schema_cache_file],
                    client_calls |-> ClientCalls(SchemaDiscoveryCalls, remote.fail_at),
                    raised |-> "",
                    logged |-> IF parse_raises THEN "IndexError"
                               ELSE IF failed THEN remote.error
                               ELSE IF ~write_ok THEN "PermissionError" ELSE "",
                    result |-> IF failed THEN << >> ELSE discovered_tables]
        /\ remote_history' = RemoteHistory(remote.fail_at)
        /\ UNCHANGED threads
        /\ UNCHANGED << now, measure_vars, builder_vars >>

\* discover_model_schema(workspace_name, dataset_name, force_refresh).
\* remote.fail_at is the position in SchemaDiscoveryCalls of the client call
\* that raises remote.error (0: none); force_refresh is accepted and never read.
DiscoverSchema(workspace_name, dataset_name, force_refresh, remote) ==
    LET parse_raises == remote.fail_at = 0
                        /\ (ParseRaises(remote.tables) \/ ParseRaises(remote.columns))
        failed == remote.fail_at # 0 \/ parse_raises
    IN  \E discovered_tables \in
            { BuildTables(TableInfoKeys(ResultRows(remote.tables), << >>),
                          TableColumns(ResultRows(remote.columns), << >>)) } :
        /\ cached_tables' = IF failed THEN cached_tables ELSE discovered_tables
        /\ schema_last_discovery' = IF failed THEN schema_last_discovery ELSE now
        /\ schema_cache_file' = IF failed THEN schema_cache_file
                                          ELSE SaveSchemaCache(discovered_tables)
        /\ last' = [op |-> "discover_schema",
                    workspace |-> workspace_name,
                    dataset |-> dataset_name,
                    force_refresh |-> force_refresh,
                    remote |-> remote,
                    at |-> now,
                    before |-> [cached |-> cached_tables,
                                last_discovery |-> schema_last_discovery],
                    client_calls |-> ClientCalls(SchemaDiscoveryCalls, remote.fail_at),
                    raised |-> "",
                    logged |-> IF parse_raises THEN "IndexError"
                               ELSE IF failed THEN remote.error ELSE "",
                    result |-> IF failed THEN << >> ELSE discovered_tables]
        /\ remote_history' = RemoteHistory(remote.fail_at)
        /\ UNCHANGED threads
        /\ UNCHANGED << now, measure_vars, builder_vars >>

\* get_fact_tables
GetFactTables == SelectSeq(cached_tables, LAMBDA t : t.is_fact_table)

\* get_dimension_tables
GetDimensionTables == SelectSeq(cached_tables, LAMBDA t : ~t.is_fact_table)

\* the `corrections` dict of get_corrected_table_name
table_corrections ==
    << << <<"d","a","t","e">>, <<"_","D","a","t","e">> >>, << <<"p","e","r","i","o","d">>, <<"_","P","e","r","i","o","d">> >>,
       << <<"s","c","e","n","a","r","i","o">>, <<"_","S","c","e","n","a","r","i","o">> >>, << <<"a","c","c","o","u","n","t","s">>, <<"A","c","c","o","u","n","t","s">> >>,
       << <<"j","o","u","r","n","a","l","s">>, <<"J","o","u","r","n","a","l","s">> >>, << <<"m","a","p","p","i","n","g">>, <<"M","a","p","p","i","n","g">> >> >>

\* `name in self._cached_tables`
IsCachedTable(name) == \E i \in 1..Len(cached_tables) : cached_tables[i].name = name

\* get_corrected_table_name returning the correction of an assumed name
\* without looking it up among the cached tables
GetCorrectedTableName_AliasUnchecked(assumed_name) ==
    LET Correct(assumed_lower) ==
        LET k == FirstIdx(table_corrections, LAMBDA e : e[1] = assumed_lower)
            exact == FirstIdx(cached_tables, LAMBDA t : Lower(t.name) = assumed_lower)
            partial == FirstIdx(cached_tables,
                                LAMBDA t : \/ Contains(assumed_lower, Lower(t.name))
                                           \/ Contains(Lower(t.name), assumed_lower))
        IN
        IF k # 0 THEN table_corrections[k][2]
        ELSE IF exact # 0 THEN cached_tables[exact].name
        ELSE IF partial # 0 THEN cached_tables[partial].name
        ELSE None
    IN  Once(Lower(assumed_name), Correct)

\* get_corrected_table_name: the actual table name for an assumed one, or None
GetCorrectedTableName(assumed_name) ==
    LET Correct(assumed_lower) ==
        LET k == FirstIdx(table_corrections, LAMBDA e : e[1] = assumed_lower)
            exact == FirstIdx(cached_tables, LAMBDA t : Lower(t.name) = assumed_lower)
            partial == FirstIdx(cached_tables,
                                LAMBDA t : \/ Contains(assumed_lower, Lower(t.name))
                                           \/ Contains(Lower(t.name), assumed_lower))
        IN
        IF k # 0 /\ IsCachedTable(table_corrections[k][2])
        THEN table_corrections[k][2]
        ELSE IF exact # 0 THEN cached_tables[exact].name
        ELSE IF partial # 0 THEN cached_tables[partial].name
        ELSE None
    IN  Once(Lower(assumed_name), Correct)

\* a caller asks get_corrected_table_name(assumed_name)
LookupCorrectedTableName(assumed_name) ==
    /\ last' = [op |-> "get_corrected_table_name",
                assumed_name |-> assumed_name,
                result |-> GetCorrectedTableName(assumed_name)]
    /\ UNCHANGED << now, measure_vars, schema_vars, builder_vars,
                   remote_history, threads >>

---------------------------------------------------------------------------
(* context/builder.py: PowerBIContextBuilder *)

DigitChars == << "0","1","2","3","4","5","6","7","8","9" >>

\* datetime.isoformat() at the model's resolution: day of the month and hour,
\* "DDTHH", both zero-padded
IsoFormat(t) ==
    LET day == (t \div 24) + 1
        hour == t % 24
    IN  << DigitChars[(day \div 10) + 1], DigitChars[(day % 10) + 1], "T",
           DigitChars[(hour \div 10) + 1], DigitChars[(hour % 10) + 1] >>

\* code point order of the characters of a timestamp
CharOrd(c) ==
    IF \E i \in 1..10 : DigitChars[i] = c
    THEN CHOOSE i \in 1..10 : DigitChars[i] = c
    ELSE 11

\* SQLite's `a > b` on TEXT: byte-wise comparison
TextGreater(a, b) ==
    \/ \E i \in 1..Min(Len(a), Len(b)) :
          /\ SubSeq(a, 1, i - 1) = SubSeq(b, 1, i - 1)
          /\ CharOrd(a[i]) > CharOrd(b[i])
    \/ Len(a) > Len(b) /\ SubSeq(a, 1, Len(b)) = b

\* PowerBIContextBuilder.__init__ over a new context_cache.sqlite
InitContextBuilder(workspace, dataset) ==
    /\ builder_workspace_name = workspace
    /\ builder_dataset_name = dataset
    /\ context_cache = << >>
    /\ context_performance = 0

\* the context types
ContextTypes == << <<"m","e","a","s","u","r","e","s">>, <<"s","c","h","e","m","a">>, <<"f","i","n","a","n","c","i","a","l","_","h","i","e","r","a","r","c","h","y">> >>

\* _get_context_id
ContextId(context_type) ==
    context_type \o <<"_">> \o builder_workspace_name \o <<"_">> \o builder_dataset_name

\* json.dumps, and json.loads of its output: the documents hold only str
\* keys, str, int, float, list and dict values, which JSON returns as they were
JsonDumps(data) == << "json", data >>

JsonLoads(text) == text[2]

\* _get_content_hash: md5 of json.dumps(data, sort_keys=True), taken to be
\* free of collisions; dicts are functions, which have no key order
GetContentHash(data) == << "md5", JsonDumps(data) >>

\* get_high_confidence_measures(min_confidence = 0.7)
GetHighConfidenceMeasures ==
    SelectSeq(cached_measures, LAMBDA m : m.confidence >= 70)

\* get_revenue_measures
GetRevenueMeasures ==
    LET hits == SelectSeq(cached_measures,
                    LAMBDA m : m.category = <<"r","e","v","e","n","u","e">>
                               \/ Contains(<<"r","e","v","e","n","u","e">>, Lower(m.name)))
    IN  [i \in 1..Len(hits) |-> hits[i].name]

\* "Build measure mappings" taking the custom mappings alone
ActiveMappings_CustomOnly == measure_mappings

\* "Build measure mappings": generic name -> actual measure, for the generic
\* names of FINANCIAL_MEASURES that resolve to a non-empty name
ActiveMappings ==
    LET keys == { FINANCIAL_MEASURES[i][1] : i \in 1..Len(FINANCIAL_MEASURES) }
        Dict(mappings) ==
            [g \in { p.generic_name : p \in mappings } |->
                (CHOOSE p \in mappings : p.generic_name = g).actual_measure]
    IN  Once({ p \in { [generic_name |-> g,
                        actual_measure |-> GetMeasureMapping(g)] : g \in keys } :
                 p.actual_measure \notin { None, << >> } },
             Dict)

\* the category group of a measure in measures_by_category
CategoryGroup(category) ==
    IF category = <<"r","e","v","e","n","u","e">> THEN "revenue"
    ELSE IF category \in { <<"g","r","o","s","s","_","p","r","o","f","i","t">>, <<"e","b","i","t","d","a">>, <<"n","e","t","_","p","r","o","f","i","t">> }
    THEN "profitability"
    ELSE IF category \in { <<"c","a","s","h">>, <<"w","o","r","k","i","n","g","_","c","a","p","i","t","a","l">>, <<"t","o","t","a","l","_","a","s","s","e","t","s">>, <<"e","q","u","i","t","y">> }
    THEN "balance_sheet"
    ELSE IF Contains(<<"p","y">>, category) \/ Contains(<<"b","u","d","g","e","t">>, category)
    THEN "variance"
    ELSE "unknown"

\* the measures of one category group, as listed in measures_by_category
GroupMeasures(group) ==
    LET ms == SelectSeq(cached_measures, LAMBDA m : CategoryGroup(m.category) = group)
    IN  [i \in 1..Len(ms) |->
            [name |-> ms[i].name, category |-> ms[i].category,
             confidence |-> ms[i].confidence, aliases |-> ms[i].aliases]]

\* revenue_measures[:3]
Take(s, n) == SubSeq(s, 1, Min(Len(s), n))

\* the try body of build_measures_context raises: get_high_confidence_measures
\* compares a confidence that is not a number
MeasuresContextRaises ==
    \E i \in 1..Len(cached_measures) : cached_measures[i].confidence = NullConfidence

\* the context dict of build_measures_context
MeasuresContext ==
    LET Context(high_confidence, mappings) ==
        [workspace |-> builder_workspace_name,
         dataset |-> builder_dataset_name,
         last_updated |-> IsoFormat(now),
         total_measures |-> Len(cached_measures),
         high_confidence_count |-> Len(high_confidence),
         measures_by_category |->
             [revenue |-> GroupMeasures("revenue"),
              profitability |-> GroupMeasures("profitability"),
              balance_sheet |-> GroupMeasures("balance_sheet"),
              variance |-> GroupMeasures("variance"),
              unknown |-> GroupMeasures("unknown")],
         active_mappings |-> mappings,
         recommended_measures |->
             [n \in { high_confidence[i].name : i \in 1..Len(high_confidence) } |->
                 LET m == high_confidence[CHOOSE i \in 1..Len(high_confidence) :
                                             high_confidence[i].name = n]
                 IN  [category |-> m.category,
                      confidence |-> m.confidence,
                      suggested_use |->
                          << "Use [", m.name, "] for ", m.category, " queries" >>]],
         usage_guide |->
             [revenue_queries |-> Take(GetRevenueMeasures, 3),
              dax_format |-> "Always use [MeasureName] format in DAX queries",
              mapping_info |->
                  << Cardinality(DOMAIN mappings),
                     " generic measures mapped to actual names" >>]]
        WithMappings(mappings) ==
            LET WithBoth(high_confidence) == Context(high_confidence, mappings)
            IN  Once(GetHighConfidenceMeasures, WithBoth)
    IN  Once(ActiveMappings, WithMappings)

\* the document build_measures_context returns when its try body raises
MeasuresErrorContext ==
    [error |-> "Measures context unavailable",
     fallback |-> "Use discover_measures() tool to get current measure list",
     workspace |-> builder_workspace_name,
     dataset |-> builder_dataset_name]

\* str.title() of the common names, which are single lower-case words
Title(s) ==
    [i \in 1..Len(s) |->
        IF i = 1 /\ \E k \in 1..26 : LowerChars[k] = s[1]
        THEN UpperChars[CHOOSE k \in 1..26 : LowerChars[k] = s[1]]
        ELSE s[i]]

common_names ==
    << <<"d","a","t","e">>, <<"p","e","r","i","o","d">>, <<"s","c","e","n","a","r","i","o">>, <<"a","c","c","o","u","n","t","s">>, <<"j","o","u","r","n","a","l","s">>, <<"m","a","p","p","i","n","g">> >>

\* table_name_corrections of build_schema_context
TableNameCorrections ==
    LET Dict(corrections) ==
            [k \in { Title(p.common_name) : p \in corrections } |->
                (CHOOSE p \in corrections : Title(p.common_name) = k).actual_name]
    IN  Once({ p \in { [common_name |-> common_names[i],
                        actual_name |-> GetCorrectedTableName(common_names[i])] :
                       i \in 1..Len(common_names) } :
                 /\ p.actual_name \notin { None, << >> }
                 /\ Lower(p.actual_name) # p.common_name },
             Dict)

\* max(fact_tables, key=lambda t: t.confidence): the first of the largest
MainFactTable(fact_tables) ==
    fact_tables[CHOOSE i \in 1..Len(fact_tables) :
                    /\ \A j \in 1..Len(fact_tables) :
                          ~FloatLess(fact_tables[i].confidence,
                                     fact_tables[j].confidence)
                    /\ \A j \in 1..(i - 1) :
                          FloatLess(fact_tables[j].confidence,
                                    fact_tables[i].confidence)]

\* key_tables of build_schema_context
KeyTables ==
    LET fact_tables == GetFactTables
        date_tables == SelectSeq(GetDimensionTables,
                                 LAMBDA t : Contains(<<"d","a","t","e">>, Lower(t.name)))
        mapping_tables == SelectSeq(cached_tables,
                                    LAMBDA t : Contains(<<"m","a","p","p","i","n","g">>, Lower(t.name)))
        main ==
            IF fact_tables = << >> THEN << >>
            ELSE << [key |-> "main_fact_table",
                     name |-> MainFactTable(fact_tables).name,
                     columns |-> Len(MainFactTable(fact_tables).columns),
                     confidence |-> MainFactTable(fact_tables).confidence] >>
        date ==
            IF date_tables = << >> THEN << >>
            ELSE << [key |-> "date_table",
                     name |-> date_tables[1].name,
                     year_columns |->
                         SelectSeq(date_tables[1].columns,
                                   LAMBDA col : Contains(<<"y","e","a","r">>, Lower(col)))] >>
        mapping ==
            IF mapping_tables = << >> THEN << >>
            ELSE << [key |-> "mapping_table",
                     name |-> mapping_tables[1].name,
                     hierarchy_columns |->
                         SelectSeq(mapping_tables[1].columns,
                                   LAMBDA col : StartsWith(col, <<"l","v","l">>))] >>
    IN  main \o date \o mapping

\* the try body of build_schema_context raises: the confidence of a fact
\* table is not a number
SchemaContextRaises ==
    \E i \in 1..Len(cached_tables) :
        cached_tables[i].is_fact_table /\ cached_tables[i].confidence = NullFloat

\* [t.name for t in tables]
TableNames(tables) == [i \in 1..Len(tables) |-> tables[i].name]

\* the context dict of build_schema_context
SchemaContext ==
    [workspace |-> builder_workspace_name,
     dataset |-> builder_dataset_name,
     last_updated |-> IsoFormat(now),
     total_tables |-> Len(cached_tables),
     table_name_corrections |-> TableNameCorrections,
     key_tables |-> KeyTables,
     fact_tables |-> TableNames(GetFactTables),
     dimension_tables |-> TableNames(GetDimensionTables),
     dax_best_practices |-> "table_references, common_errors"]

\* the document build_schema_context returns when its try body raises
SchemaErrorContext ==
    [error |-> "Schema context unavailable",
     fallback |-> "Use analyze_model_schema() tool to get current schema",
     static_info |-> "POHODA_TABLES"]

\* the context dict of build_financial_hierarchy_context: a literal
FinancialHierarchyContext ==
    [mapping_table_info |-> "description, key_columns, hierarchy_levels, usage",
     financial_analysis_guide |->
         "revenue_classification, cost_analysis, hierarchy_queries"]

\* what build_<context_type>_context assembles: the document, and whether it
\* is the context dict (which is cached) or the except branch's document
FreshContext(context_type) ==
    IF context_type = <<"m","e","a","s","u","r","e","s">>
    THEN IF MeasuresContextRaises
         THEN [doc |-> MeasuresErrorContext, ok |-> FALSE]
         ELSE [doc |-> MeasuresContext, ok |-> TRUE]
    ELSE IF context_type = <<"s","c","h","e","m","a">>
    THEN IF SchemaContextRaises
         THEN [doc |-> SchemaErrorContext, ok |-> FALSE]
         ELSE [doc |-> SchemaContext, ok |-> TRUE]
    ELSE [doc |-> FinancialHierarchyContext, ok |-> TRUE]

ttl_hours == 24

\* _cache_context as an upsert that keeps the hit counter of a replaced row
CacheContext_KeepHits(cache, context_type, context_data) ==
    LET context_id == ContextId(context_type)
        row == [id |-> context_id,
                context_type |-> context_type,
                workspace |-> builder_workspace_name,
                dataset |-> builder_dataset_name,
                content_hash |-> GetContentHash(context_data),
                context_data |-> JsonDumps(context_data),
                created_at |-> IsoFormat(now),
                expires_at |-> IsoFormat(now + ttl_hours),
                hit_count |-> IF context_id \in DOMAIN cache
                              THEN cache[context_id].hit_count ELSE 0,
                last_accessed |-> IsoFormat(now)]
    IN  [x \in (DOMAIN cache) \cup {context_id} |->
            IF x = context_id THEN row ELSE cache[x]]

\* _cache_context: INSERT OR REPLACE of the whole row, hit_count 0
CacheContext(cache, context_type, context_data) ==
    LET context_id == ContextId(context_type)
        row == [id |-> context_id,
                context_type |-> context_type,
                workspace |-> builder_workspace_name,
                dataset |-> builder_dataset_name,
                content_hash |-> GetContentHash(context_data),
                context_data |-> JsonDumps(context_data),
                created_at |-> IsoFormat(now),
                expires_at |-> IsoFormat(now + ttl_hours),
                hit_count |-> 0,
                last_accessed |-> IsoFormat(now)]
    IN  [x \in (DOMAIN cache) \cup {context_id} |->
            IF x = context_id THEN row ELSE cache[x]]

\* the SELECT with `expires_at >= ?`
SelectCached_ExpiryInclusive(cache, context_type) ==
    /\ ContextId(context_type) \in DOMAIN cache
    /\ ~TextGreater(IsoFormat(now), cache[ContextId(context_type)].expires_at)

\* the SELECT of _get_cached_context: WHERE id = ? AND expires_at > ?
SelectCached(cache, context_type) ==
    /\ ContextId(context_type) \in DOMAIN cache
    /\ TextGreater(cache[ContextId(context_type)].expires_at, IsoFormat(now))

\* the UPDATE of _get_cached_context moving the expiry on as well
TouchCached_ExtendExpiry(cache, context_type) ==
    [cache EXCEPT ![ContextId(context_type)] =
        [@ EXCEPT !.hit_count = @ + 1, !.last_accessed = IsoFormat(now),
                  !.expires_at = IsoFormat(now + ttl_hours)]]

\* the UPDATE of _get_cached_context
TouchCached(cache, context_type) ==
    [cache EXCEPT ![ContextId(context_type)] =
        [@ EXCEPT !.hit_count = @ + 1, !.last_accessed = IsoFormat(now)]]

\* the cached build writing whatever the build returned to the cache
CachedBuild_CacheDegraded(cache, context_type, force_refresh) ==
    IF ~force_refresh /\ SelectCached(cache, context_type)
    THEN [cache |-> TouchCached(cache, context_type),
          doc |-> JsonLoads(cache[ContextId(context_type)].context_data),
          cache_hit |-> TRUE,
          sample |-> [context_type |-> context_type, operation |-> "build",
                      cache_hit |-> TRUE]]
    ELSE LET Built(fresh) ==
                 [cache |-> CacheContext(cache, context_type, fresh.doc),
                  doc |-> fresh.doc,
                  cache_hit |-> FALSE,
                  sample |-> [context_type |-> context_type, operation |-> "build",
                              cache_hit |-> FALSE]]
         IN  Once(FreshContext(context_type), Built)

\* build_<context_type>_context_cached(force_refresh) over the cache table:
\* the table afterwards, the document returned, whether it came from the
\* cache, and the performance sample logged
CachedBuild(cache, context_type, force_refresh) ==
    IF ~force_refresh /\ SelectCached(cache, context_type)
    THEN [cache |-> TouchCached(cache, context_type),
          doc |-> JsonLoads(cache[ContextId(context_type)].context_data),
          cache_hit |-> TRUE,
          sample |-> [context_type |-> context_type, operation |-> "build",
                      cache_hit |-> TRUE]]
    ELSE LET Built(fresh) ==
                 [cache |-> IF fresh.ok
                            THEN CacheContext(cache, context_type, fresh.doc)
                            ELSE cache,
                  doc |-> fresh.doc,
                  cache_hit |-> FALSE,
                  sample |-> [context_type |-> context_type, operation |-> "build",
                              cache_hit |-> FALSE]]
         IN  Once(FreshContext(context_type), Built)

\* bounds of the model: the clock, the hit counters and the sample log
TickHours == 12

MaxTime == 24

MaxHits == 2

MaxSamples == 6

\* every hit counter of the table is within the model's bound
HitsBounded(cache) == \A id \in DOMAIN cache : cache[id].hit_count <= MaxHits

\* build_measures_context_cached, build_schema_context_cached and
\* build_financial_hierarchy_context_cached
BuildContextCached(context_type, force_refresh) ==
    \E b \in { CachedBuild(context_cache, context_type, force_refresh) } :
        /\ HitsBounded(b.cache)
        /\ context_performance < MaxSamples
        /\ context_cache' = b.cache
        /\ context_performance' = context_performance + 1
        /\ last' = [op |-> "build_context_cached",
                    context_type |-> context_type,
                    force_refresh |-> force_refresh,
                    at |-> now,
                    before |-> context_cache,
                    cache_hit |-> b.cache_hit,
                    samples |-> << b.sample >>,
                    raised |-> "",
                    result |-> b.doc]
        /\ UNCHANGED << now, measure_vars, schema_vars, builder_workspace_name,
                        builder_dataset_name, remote_history, threads >>

\* the cached build when statements on context_cache.sqlite can fail.
\* store says which of them succeed: the SELECT and the UPDATE of
\* _get_cached_context, the INSERT OR REPLACE of _cache_context and the INSERT
\* of _log_performance; each of the three methods catches what
\* db_manager raises.
CachedBuildOver(cache, context_type, force_refresh, store) ==
    IF /\ ~force_refresh
       /\ store.select
       /\ SelectCached(cache, context_type)
       /\ store.update
    THEN [cache |-> TouchCached(cache, context_type),
          doc |-> JsonLoads(cache[ContextId(context_type)].context_data),
          cache_hit |-> TRUE,
          samples |-> IF store.log
                      THEN << [context_type |-> context_type, operation |-> "build",
                               cache_hit |-> TRUE] >>
                      ELSE << >>]
    ELSE LET Stored(fresh) ==
                 [cache |-> IF fresh.ok /\ store.insert
                            THEN CacheContext(cache, context_type, fresh.doc)
                            ELSE cache,
                  doc |-> fresh.doc,
                  cache_hit |-> FALSE,
                  samples |-> IF store.log
                              THEN << [context_type |-> context_type,
                                       operation |-> "build", cache_hit |-> FALSE] >>
                              ELSE << >>]
         IN  Once(FreshContext(context_type), Stored)

\* the cached build raising what the cache lookup raises
BuildContextCachedOver_LookupPropagates(context_type, force_refresh, store) ==
    \E b \in { CachedBuildOver(context_cache, context_type, force_refresh, store) } :
        /\ HitsBounded(b.cache)
        /\ context_performance + Len(b.samples) <= MaxSamples
        /\ context_cache' = b.cache
        /\ context_performance' = context_performance + Len(b.samples)
        /\ last' = [op |-> "build_context_cached",
                    context_type |-> context_type,
                    force_refresh |-> force_refresh,
                    store |-> store,
                    at |-> now,
                    before |-> context_cache,
                    performance_before |-> context_performance,
                    cache_hit |-> b.cache_hit,
                    samples |-> b.samples,
                    raised |-> IF ~force_refresh /\ ~store.select
                               THEN "DatabaseConnectionError" ELSE "",
                    result |-> IF ~force_refresh /\ ~store.select
                               THEN << >> ELSE b.doc]
        /\ UNCHANGED << now, measure_vars, schema_vars, builder_workspace_name,
                        builder_dataset_name, remote_history, threads >>

\* build_measures_context_cached, build_schema_context_cached and
\* build_financial_hierarchy_context_cached over a store whose statements
\* succeed or fail as store says
BuildContextCachedOver(context_type, force_refresh, store) ==
    \E b \in { CachedBuildOver(context_cache, context_type, force_refresh, store) } :
        /\ HitsBounded(b.cache)
        /\ context_performance + Len(b.samples) <= MaxSamples
        /\ context_cache' = b.cache
        /\ context_performance' = context_performance + Len(b.samples)
        /\ last' = [op |-> "build_context_cached",
                    context_type |-> context_type,
                    force_refresh |-> force_refresh,
                    store |-> store,
                    at |-> now,
                    before |-> context_cache,
                    performance_before |-> context_performance,
                    cache_hit |-> b.cache_hit,
                    samples |-> b.samples,
                    raised |-> "",
                    result |-> b.doc]
        /\ UNCHANGED << now, measure_vars, schema_vars, builder_workspace_name,
                        builder_dataset_name, remote_history, threads >>

\* build_<context_type>_context_cached called by a thread of its own over
\* the shared context_cache.sqlite, statement by statement.  threads[t] holds
\* the position of thread t and its locals; last keeps, next to the outcome
\* of the call that returned last, the history of the stored row: `entry`
\* counts the rows written under the id so far and `served` the calls that
\* were given the payload of the row now stored.

\* the history of the stored row so far
EntryHistory ==
    IF "entry" \in DOMAIN last
    THEN [entry |-> last.entry, served |-> last.served]
    ELSE [entry |-> 0, served |-> 0]

\* thread t is not inside a call
Idle(t) == IF t \in DOMAIN threads THEN threads[t].pc = "done" ELSE TRUE

\* the call is entered
BuildBegin(t, context_type, force_refresh) ==
    /\ Idle(t)
    /\ threads' = [u \in DOMAIN threads \cup {t} |->
                     IF u = t
                     THEN [pc |-> IF force_refresh THEN "build" ELSE "select",
                           context_type |-> context_type,
                           force_refresh |-> force_refresh,
                           entry |-> 0,
                           cache_hit |-> FALSE,
                           doc |-> << >>]
                     ELSE threads[u]]
    /\ UNCHANGED << now, measure_vars, schema_vars, builder_vars, remote_history,
                    last >>

\* _get_cached_context: SELECT ... WHERE id = ? AND expires_at > ?
BuildSelect(t) ==
    /\ t \in DOMAIN threads
    /\ threads[t].pc = "select"
    /\ threads' =
          IF SelectCached(context_cache, threads[t].context_type)
          THEN [threads EXCEPT
                   ![t].pc = "update",
                   ![t].entry = EntryHistory.entry,
                   ![t].cache_hit = TRUE,
                   ![t].doc = JsonLoads(context_cache[ContextId(threads[t].context_type)]
                                            .context_data)]
          ELSE [threads EXCEPT ![t].pc = "build"]
    /\ UNCHANGED << now, measure_vars, schema_vars, builder_vars, remote_history,
                    last >>

\* _get_cached_context: UPDATE ... SET hit_count = hit_count + 1,
\* last_accessed = ? WHERE id = ?, on the row stored under the id now
BuildUpdate(t) ==
    /\ t \in DOMAIN threads
    /\ threads[t].pc = "update"
    /\ \E cache \in { IF ContextId(threads[t].context_type) \in DOMAIN context_cache
                      THEN TouchCached(context_cache, threads[t].context_type)
                      ELSE context_cache } :
          /\ HitsBounded(cache)
          /\ context_cache' = cache
    /\ threads' = [threads EXCEPT ![t].pc = "log"]
    /\ last' = [op |-> "build_step", thread |-> t,
                entry |-> EntryHistory.entry,
                served |-> IF threads[t].entry = EntryHistory.entry
                           THEN EntryHistory.served + 1
                           ELSE EntryHistory.served]
    /\ UNCHANGED << now, measure_vars, schema_vars, builder_workspace_name,
                    builder_dataset_name, context_performance, remote_history >>

\* build_<context_type>_context: the document is assembled and _cache_context
\* runs its INSERT OR REPLACE
BuildStore(t) ==
    /\ t \in DOMAIN threads
    /\ threads[t].pc = "build"
    /\ \E fresh \in { FreshContext(threads[t].context_type) } :
          /\ context_cache' = IF fresh.ok
                              THEN CacheContext(context_cache, threads[t].context_type,
                                                fresh.doc)
                              ELSE context_cache
          /\ threads' = [threads EXCEPT ![t].pc = "log", ![t].doc = fresh.doc]
          /\ last' = [op |-> "build_step", thread |-> t,
                      entry |-> IF fresh.ok THEN EntryHistory.entry + 1
                                ELSE EntryHistory.entry,
                      served |-> IF fresh.ok THEN 0 ELSE EntryHistory.served]
    /\ UNCHANGED << now, measure_vars, schema_vars, builder_workspace_name,
                    builder_dataset_name, context_performance, remote_history >>

\* _log_performance, and the document is returned
BuildLog(t) ==
    /\ t \in DOMAIN threads
    /\ threads[t].pc = "log"
    /\ context_performance < MaxSamples
    /\ context_performance' = context_performance + 1
    /\ threads' = [threads EXCEPT ![t].pc = "done"]
    /\ last' = [op |-> "build_context_cached", thread |-> t,
                context_type |-> threads[t].context_type,
                force_refresh |-> threads[t].force_refresh,
                at |-> now,
                cache_hit |-> threads[t].cache_hit,
                raised |-> "",
                result |-> threads[t].doc,
                entry |-> EntryHistory.entry,
                served |-> EntryHistory.served]
    /\ UNCHANGED << now, measure_vars, schema_vars, builder_workspace_name,
                    builder_dataset_name, context_cache, remote_history >>

\* cache_statistics of _get_context_metadata: GROUP BY context_type over the
\* rows of this workspace and dataset.  id is the primary key and is made of
\* the three columns, so a group has one row.
CacheStatistics(cache) ==
    LET ids == { id \in DOMAIN cache :
                    /\ cache[id].workspace = builder_workspace_name
                    /\ cache[id].dataset = builder_dataset_name }
    IN  [t \in { cache[id].context_type : id \in ids } |->
            LET row == cache[CHOOSE id \in ids : cache[id].context_type = t]
            IN  [entries |-> 1,
                 total_hits |-> row.hit_count,
                 avg_hits |-> row.hit_count,
                 last_access |-> row.last_accessed]]

\* _get_context_metadata; the timings of performance_statistics are left out,
\* the number of samples they are taken from is kept
ContextMetadata(cache, performance_rows) ==
    [cache_duration |-> "24 hours",
     cache_statistics |-> CacheStatistics(cache),
     performance_statistics |-> [samples |-> performance_rows],
     refresh_command |-> "Use build_complete_context_optimized(force_refresh=True)",
     schema_refresh |-> "Use analyze_model_schema(force_refresh=True) to update",
     database_info |-> [cache_enabled |-> TRUE, version |-> "2.0"]]

best_practices ==
    << "Always use actual measure names from measures.active_mappings",
       "Use corrected table names to avoid DAX errors",
       "Include financial hierarchy for accurate analysis",
       "Give short and precise answers unless asked otherwise" >>

\* the context dict of build_complete_context_optimized
OptimizedContext(measures, schema, financial_hierarchy, metadata) ==
    [power_bi_model_info |->
         [workspace |-> builder_workspace_name,
          dataset |-> builder_dataset_name,
          last_context_update |-> IsoFormat(now),
          context_version |-> "2.0",
          cache_enabled |-> TRUE],
     measures |-> measures,
     schema |-> schema,
     financial_hierarchy |-> financial_hierarchy,
     claude_quick_reference |->
         [measure_format |-> "Use [MeasureName] format in all DAX queries",
          performance_mode |->
              "Context cached for 24h - use force_refresh=True to update",
          best_practices |-> best_practices],
     context_metadata |-> metadata]

\* the document build_complete_context returns when its try body raises
CompleteErrorContext ==
    [error |-> "Complete context unavailable",
     fallback_tools |->
         << "discover_measures() - Get current measures",
            "analyze_model_schema() - Get table schema",
            "analyze_mapping_structure() - Get financial hierarchy" >>,
     workspace |-> builder_workspace_name,
     dataset |-> builder_dataset_name]

\* build_complete_context giving up when the measures section has no measures
CompleteContext_FailOnEmpty(measures, schema, financial_hierarchy) ==
    IF "total_measures" \in DOMAIN measures /\ measures.total_measures > 0
    THEN [power_bi_model_info |->
              [workspace |-> builder_workspace_name,
               dataset |-> builder_dataset_name,
               last_context_update |-> IsoFormat(now),
               context_version |-> "1.0"],
          measures |-> measures,
          schema |-> schema,
          financial_hierarchy |-> financial_hierarchy,
          claude_quick_reference |->
              [measure_format |-> "Use [MeasureName] format in all DAX queries",
               best_practices |-> best_practices],
          context_metadata |->
              [cache_duration |-> "24 hours",
               refresh_command |-> "Use discover_measures(force_refresh=True) to update",
               schema_refresh |-> "Use analyze_model_schema(force_refresh=True) to update"]]
    ELSE CompleteErrorContext

\* the context dict of build_complete_context
CompleteContext(measures, schema, financial_hierarchy) ==
    [power_bi_model_info |->
         [workspace |-> builder_workspace_name,
          dataset |-> builder_dataset_name,
          last_context_update |-> IsoFormat(now),
          context_version |-> "1.0"],
     measures |-> measures,
     schema |-> schema,
     financial_hierarchy |-> financial_hierarchy,
     claude_quick_reference |->
         [measure_format |-> "Use [MeasureName] format in all DAX queries",
          best_practices |-> best_practices],
     context_metadata |->
         [cache_duration |-> "24 hours",
          refresh_command |-> "Use discover_measures(force_refresh=True) to update",
          schema_refresh |-> "Use analyze_model_schema(force_refresh=True) to update"]]

\* build_complete_context_optimized where a sub-document that missed makes
\* the following ones rebuild
BuildCompleteContextOptimized_MissCascades(force_refresh) ==
    \E m \in { CachedBuild(context_cache, <<"m","e","a","s","u","r","e","s">>, force_refresh) } :
    \E s \in { CachedBuild(m.cache, <<"s","c","h","e","m","a">>, force_refresh \/ ~m.cache_hit) } :
    \E h \in { CachedBuild(s.cache, <<"f","i","n","a","n","c","i","a","l","_","h","i","e","r","a","r","c","h","y">>,
                            force_refresh \/ ~s.cache_hit) } :
    \E metadata \in { ContextMetadata(h.cache, context_performance + 3) } :
        /\ HitsBounded(h.cache)
        /\ context_performance + 4 <= MaxSamples
        /\ context_cache' = h.cache
        /\ context_performance' = context_performance + 4
        /\ last' = [op |-> "build_complete_context_optimized",
                    force_refresh |-> force_refresh,
                    at |-> now,
                    before |-> context_cache,
                    samples |-> << m.sample, s.sample, h.sample,
                                   [context_type |-> <<"c","o","m","p","l","e","t","e">>,
                                    operation |-> "build",
                                    cache_hit |-> FALSE] >>,
                    raised |-> "",
                    result |-> OptimizedContext(m.doc, s.doc, h.doc, metadata)]
        /\ UNCHANGED << now, measure_vars, schema_vars, builder_workspace_name,
                        builder_dataset_name, remote_history, threads >>

\* build_complete_context_optimized(force_refresh): the three cached builds
\* in turn, then the metadata, then the sample of the complete build
BuildCompleteContextOptimized(force_refresh) ==
    \E m \in { CachedBuild(context_cache, <<"m","e","a","s","u","r","e","s">>, force_refresh) } :
    \E s \in { CachedBuild(m.cache, <<"s","c","h","e","m","a">>, force_refresh) } :
    \E h \in { CachedBuild(s.cache, <<"f","i","n","a","n","c","i","a","l","_","h","i","e","r","a","r","c","h","y">>, force_refresh) } :
    \E metadata \in { ContextMetadata(h.cache, context_performance + 3) } :
        /\ HitsBounded(h.cache)
        /\ context_performance + 4 <= MaxSamples
        /\ context_cache' = h.cache
        /\ context_performance' = context_performance + 4
        /\ last' = [op |-> "build_complete_context_optimized",
                    force_refresh |-> force_refresh,
                    at |-> now,
                    before |-> context_cache,
                    samples |-> << m.sample, s.sample, h.sample,
                                   [context_type |-> <<"c","o","m","p","l","e","t","e">>,
                                    operation |-> "build",
                                    cache_hit |-> FALSE] >>,
                    raised |-> "",
                    result |-> OptimizedContext(m.doc, s.doc, h.doc, metadata)]
        /\ UNCHANGED << now, measure_vars, schema_vars, builder_workspace_name,
                        builder_dataset_name, remote_history, threads >>

\* the try body of build_complete_context raises: it calls the three
\* builders, which catch every exception themselves, and fills in a literal
CompleteContextRaises == FALSE

\* build_complete_context: the three builds without the cache
BuildCompleteContext ==
    /\ last' = [op |-> "build_complete_context",
                at |-> now,
                raised |-> "",
                result |-> IF CompleteContextRaises THEN CompleteErrorContext
                           ELSE CompleteContext(FreshContext(<<"m","e","a","s","u","r","e","s">>).doc,
                                                FreshContext(<<"s","c","h","e","m","a">>).doc,
                                                FreshContext(<<"f","i","n","a","n","c","i","a","l","_","h","i","e","r","a","r","c","h","y">>).doc)]
    /\ UNCHANGED << now, measure_vars, schema_vars, builder_vars, remote_history, threads >>

\* the rows the DELETE of clear_context_cache(context_type) matches:
\* `if context_type:` chooses the statement with the type condition
ClearedIds(cache, context_type) ==
    { id \in DOMAIN cache :
        /\ cache[id].workspace = builder_workspace_name
        /\ cache[id].dataset = builder_dataset_name
        /\ (context_type # None /\ context_type # << >>)
              => cache[id].context_type = context_type }

\* clear_context_cache with a DELETE that has no workspace and dataset
\* condition
ClearContextCache_AnyWorkspace(context_type) ==
    LET cleared == { id \in DOMAIN context_cache :
                       context_type # None
                          => context_cache[id].context_type = context_type }
    IN  /\ context_cache' = [id \in (DOMAIN context_cache) \ cleared |->
                                context_cache[id]]
        /\ last' = [op |-> "clear_context_cache", context_type |-> context_type,
                    before |-> context_cache,
                    samples_before |-> context_performance,
                    result |-> [success |-> TRUE, affected |-> Cardinality(cleared)]]
        /\ UNCHANGED << now, measure_vars, schema_vars, builder_workspace_name,
                        builder_dataset_name, context_performance,
                        remote_history, threads >>

\* clear_context_cache(context_type): the DELETE and the count of deleted
\* rows that the message reports
ClearContextCache(context_type) ==
    LET cleared == ClearedIds(context_cache, context_type)
    IN  /\ context_cache' = [id \in (DOMAIN context_cache) \ cleared |->
                                context_cache[id]]
        /\ last' = [op |-> "clear_context_cache", context_type |-> context_type,
                    before |-> context_cache,
                    samples_before |-> context_performance,
                    result |-> [success |-> TRUE, affected |-> Cardinality(cleared)]]
        /\ UNCHANGED << now, measure_vars, schema_vars, builder_workspace_name,
                        builder_dataset_name, context_performance,
                        remote_history, threads >>

\* the server is started again with other settings: the module-level
\* managers and builder are constructed over the files and the
\* context_cache.sqlite that the earlier process left
Restart(workspace, dataset) ==
    /\ cached_measures' = LoadMeasureCache(measure_cache_file, now).measures
    /\ last_discovery' = LoadMeasureCache(measure_cache_file, now).last_discovery
    /\ measure_mappings' = LoadMappings(mapping_file)
    /\ cached_tables' = LoadSchemaCache(schema_cache_file, now).tables
    /\ schema_last_discovery' = LoadSchemaCache(schema_cache_file, now).last_discovery
    /\ builder_workspace_name' = workspace
    /\ builder_dataset_name' = dataset
    /\ last' = [op |-> "restart", workspace |-> workspace, dataset |-> dataset]
    /\ UNCHANGED << now, measure_cache_file, mapping_file, schema_cache_file,
                   context_cache, context_performance, remote_history, threads >>

\* time passes
Tick ==
    /\ now + TickHours <= MaxTime
    /\ now' = now + TickHours
    /\ UNCHANGED << measure_vars, schema_vars, builder_vars, remote_history, threads, last >>

---------------------------------------------------------------------------
(* Resolution of generic names over any loaded cache: the manager is        *)
(* constructed over a cache file and a mappings file of arbitrary content,  *)
(* then mappings are saved and names are looked up.                         *)

\* measures as a cache file may hold them: any category, confidence, aliases
FileMeasures ==
    { DiscoveredMeasure(<<"R","e","v","e","n","u","e","_","A","I">>, <<"T","o","t","a","l"," ","s","a","l","e","s">>, <<"r","e","v","e","n","u","e">>, 90, << <<"r","e","v","e","n","u","e">> >>),
      DiscoveredMeasure(<<"T","u","r","n","o","v","e","r","_","A","I">>, << >>, <<"r","e","v","e","n","u","e">>, 61, << <<"t","u","r","n","o","v","e","r">> >>),
      DiscoveredMeasure(<<"R","e","v"," ","G","u","e","s","s">>, << >>, <<"r","e","v","e","n","u","e">>, 60, << >>),
      DiscoveredMeasure(<<"C","a","s","h","_","A","I">>, << >>, <<"c","a","s","h">>, 85, << <<"c","a","s","h">>, <<"l","i","q","u","i","d","i","t","y">> >>),
      DiscoveredMeasure(<<"M","i","s","c","_","A","I">>, << >>, <<"u","n","k","n","o","w","n">>, 10, << <<"s","a","l","e","s">> >>),
      DiscoveredMeasure(<<"P","l","a","n","_","A","I">>, << >>, <<"b","u","d","g","e","t">>, 100, << <<"b","u","d">> >>) }

MaxFileMeasures == 2

\* dicts of at most MaxFileMeasures measures, keyed by name
FileMeasureDicts ==
    UNION { { s \in [1..n -> FileMeasures] :
                \A i, j \in 1..n : i # j => s[i].name # s[j].name } :
            n \in 0..MaxFileMeasures }

\* the generic names callers ask for
GenericNames ==
    { <<"r","e","v","e","n","u","e">>, <<"S","a","l","e","s"," ","T","o","t","a","l">>, <<"s","a","l","e","s"," ","t","o","t","a","l">>, <<"c","a","s","h">>, <<"b","u","d","g","e","t">>, <<"n","e","t","_","p","r","o","f","i","t">>,
      <<"q","u","i","c","k"," ","r","a","t","i","o">> }

\* the actual names users map generic names to
ActualNames == { <<"R","e","v","e","n","u","e","_","A","I">>, <<"M","y"," ","R","e","v","e","n","u","e">> }

MappingFiles ==
    { NoFile,
      [exists |-> TRUE, mappings |-> DictSet(<< >>, <<"r","e","v","e","n","u","e">>, <<"M","y"," ","R","e","v","e","n","u","e">>)],
      [exists |-> TRUE, mappings |-> DictSet(<< >>, <<"S","a","l","e","s"," ","T","o","t","a","l">>, <<"R","e","v","e","n","u","e","_","A","I">>)] }

InitMapping ==
    /\ now = 0
    /\ \E ms \in FileMeasureDicts, mf \in MappingFiles :
          InitMeasureManager([exists |-> TRUE, timestamp |-> -1, measures |-> ms],
                             mf, 0)
    /\ InitSchemaManager(NoFile, 0)
    /\ InitContextBuilder(<<"F","i","n","a","n","c","e">>, <<"P","o","h","o","d","a">>)
    /\ remote_history = "unused"
    /\ threads = NoThreads
    /\ last = [op |-> "init"]

NextMapping ==
    \/ \E g \in { <<"r","e","v","e","n","u","e">> }, a \in ActualNames, ok \in BOOLEAN :
          SaveCustomMapping(g, a, ok)
    \/ \E g \in GenericNames : LookupMeasureMapping(g)

SpecMapping == InitMapping /\ [][NextMapping]_vars

---------------------------------------------------------------------------
(* The classifiers and the context builder of one process *)

\* cache files found at start-up: none, one written 6 hours ago, one written
\* 30 hours ago, and one whose measure has a null confidence
MeasureCacheFiles ==
    { NoFile,
      [exists |-> TRUE, timestamp |-> -6, measures |->
          << DiscoveredMeasure(<<"R","e","v","e","n","u","e","_","A","I">>, <<"T","o","t","a","l"," ","s","a","l","e","s">>, <<"r","e","v","e","n","u","e">>, 90,
                               << <<"r","e","v","e","n","u","e">> >>) >>],
      [exists |-> TRUE, timestamp |-> -30, measures |->
          << DiscoveredMeasure(<<"C","a","s","h","_","A","I">>, << >>, <<"c","a","s","h">>, 85,
                               << <<"c","a","s","h">>, <<"l","i","q","u","i","d","i","t","y">> >>) >>],
      [exists |-> TRUE, timestamp |-> -6, measures |->
          << DiscoveredMeasure(<<"B","r","o","k","e","n","_","A","I">>, << >>, <<"r","e","v","e","n","u","e">>, NullConfidence,
                               << >>) >>] }

SchemaCacheFiles ==
    { NoFile,
      [exists |-> TRUE, timestamp |-> -6, tables |->
          << TableSchema(<<"J","o","u","r","n","a","l","s">>, << <<"A","m","o","u","n","t">>, <<"A","c","c","o","u","n","t","I","D">> >>,
                         CategorizeTable(<<"J","o","u","r","n","a","l","s">>, << <<"A","m","o","u","n","t">>, <<"A","c","c","o","u","n","t","I","D">> >>)[1],
                         CategorizeTable(<<"J","o","u","r","n","a","l","s">>, << <<"A","m","o","u","n","t">>, <<"A","c","c","o","u","n","t","I","D">> >>)[2]) >>] }

\* the model the client is asked about
Workspace == <<"F","i","n","a","n","c","e">>

Dataset == <<"P","o","h","o","d","a">>

\* answers of the measures query
MeasureResults ==
    { [format |-> "list", has_rows |-> TRUE, rows |->
          << [name |-> <<"R","e","v","e","n","u","e","_","A","I">>, description |-> <<"T","o","t","a","l"," ","s","a","l","e","s">>],
             [name |-> <<"H","e","l","p","e","r","1">>, description |-> <<"i","n","t","e","r","n","a","l">>] >>],
      [format |-> "dict", has_rows |-> TRUE, rows |->
          << [name |-> <<"C","a","s","h","_","A","I">>, description |-> <<"C","a","s","h"," ","a","t"," ","b","a","n","k">>],
             [name |-> <<"m","a","r","g","i","n","_","a","i">>, description |-> <<"l","o","w","e","r","-","c","a","s","e"," ","m","a","r","k","e","r">>] >>],
      [format |-> "list", has_rows |-> FALSE, rows |-> << >>] }

\* what the client does during one measure discovery
MeasureRemotes ==
    { [fail_at |-> 0, error |-> "", result |-> r] : r \in MeasureResults }
    \cup { [fail_at |-> 0, error |-> "",
             result |-> [format |-> "dict_no_results", has_rows |-> FALSE,
                         rows |-> << >>]] }
    \cup { [fail_at |-> f[1], error |-> f[2],
             result |-> CHOOSE r \in MeasureResults : r.format = "list" /\ r.has_rows] :
           f \in { << 1, "WorkspaceNotFoundError" >>, << 1, "PowerBIError" >>,
                   << 2, "DatasetNotFoundError" >>, << 3, "DAXQueryError" >>,
                   << 3, "PowerBIError" >>, << 4, "DAXQueryError" >>,
                   << 5, "PowerBIError" >>, << 6, "DAXQueryError" >> } }

NoRows == [format |-> "list", has_rows |-> FALSE, rows |-> << >>]

\* what the client does during one schema discovery
TableRows ==
    [format |-> "list", has_rows |-> TRUE, rows |-> << [name |-> <<"J","o","u","r","n","a","l","s">>] >>]

ColumnRows ==
    [format |-> "list", has_rows |-> TRUE, rows |->
        << [table |-> <<"J","o","u","r","n","a","l","s">>, name |-> <<"A","m","o","u","n","t">>],
           [table |-> <<"_","D","a","t","e">>, name |-> <<"Y","e","a","r">>] >>]

SchemaRemotes ==
    { [fail_at |-> 0, error |-> "", tables |-> TableRows, columns |-> ColumnRows],
      [fail_at |-> 0, error |-> "", tables |-> NoRows, columns |-> NoRows] }
    \cup { [fail_at |-> f[1], error |-> f[2], tables |-> TableRows,
             columns |-> ColumnRows] :
           f \in { << 1, "WorkspaceNotFoundError" >>, << 2, "DatasetNotFoundError" >>,
                   << 3, "DAXQueryError" >>, << 4, "PowerBIError" >> } }

\* the process starts at time 0 over the files it finds
InitFiles(measure_files, mapping_files, schema_files) ==
    /\ now = 0
    /\ \E cf \in measure_files, mf \in mapping_files : InitMeasureManager(cf, mf, 0)
    /\ \E sf \in schema_files : InitSchemaManager(sf, 0)
    /\ InitContextBuilder(Workspace, Dataset)
    /\ remote_history = "unused"
    /\ threads = NoThreads
    /\ last = [op |-> "init"]

---------------------------------------------------------------------------
(* Discovery: the two classifiers against the client *)

InitDiscovery ==
    InitFiles(MeasureCacheFiles,
              { NoFile, [exists |-> TRUE,
                         mappings |-> DictSet(<< >>, <<"r","e","v","e","n","u","e">>, <<"M","y"," ","R","e","v","e","n","u","e">>)] },
              SchemaCacheFiles)

NextDiscovery ==
    \/ Tick
    \/ \E f \in BOOLEAN, r \in MeasureRemotes : DiscoverMeasures(Workspace, Dataset, f, r)
    \/ \E f \in BOOLEAN, r \in SchemaRemotes : DiscoverSchema(Workspace, Dataset, f, r)

SpecDiscovery == InitDiscovery /\ [][NextDiscovery]_vars

---------------------------------------------------------------------------
(* The context cache: cached builds of each context type as time passes *)

InitCache == InitFiles(MeasureCacheFiles \ {NoFile}, {NoFile}, SchemaCacheFiles)

NextCache ==
    \/ Tick
    \/ \E t \in { ContextTypes[i] : i \in 1..Len(ContextTypes) }, f \in BOOLEAN :
          BuildContextCached(t, f)

SpecCache == InitCache /\ [][NextCache]_vars

---------------------------------------------------------------------------
(* Complete builds after discoveries *)

InitComplete ==
    InitFiles({ f \in MeasureCacheFiles :
                  ~f.exists \/ \A i \in 1..Len(f.measures) :
                                  f.measures[i].confidence # NullConfidence },
              {NoFile}, {NoFile})

NextComplete ==
    \/ Tick
    \/ \E r \in { m \in MeasureRemotes : m.fail_at \in {0, 1} } :
          DiscoverMeasures(Workspace, Dataset, FALSE, r)
    \/ \E r \in { m \in SchemaRemotes : m.fail_at \in {0, 1} } :
          DiscoverSchema(Workspace, Dataset, FALSE, r)
    \/ \E f \in BOOLEAN : BuildCompleteContextOptimized(f)
    \/ BuildCompleteContext

SpecComplete == InitComplete /\ [][NextComplete]_vars

---------------------------------------------------------------------------
(* _categorize_table over table names and column lists *)

\* table names: a fact indicator, a dimension indicator, neither, both
TableNameInputs == { <<"J","o","u","r","n","a","l","s">>, <<"_","D","a","t","e">>, <<"S","a","l","e","s">>, <<"J","o","u","r","n","a","l"," ","M","a","p","p","i","n","g">> }

\* column names: value-like, identifier-like (' id' and 'id'), neither
ColumnNameInputs ==
    { <<"A","m","o","u","n","t">>, <<"A","c","c","o","u","n","t"," ","I","d">>, <<"C","o","n","t","a","c","t"," ","I","d">>, <<"C","o","s","t"," ","C","e","n","t","e","r"," ","I","d">>, <<"Y","e","a","r">> }

MaxColumns == 5

\* the column lists of at most MaxColumns columns
ColumnLists == UNION { [1..n -> ColumnNameInputs] : n \in 0..MaxColumns }

\* the table whose classification is asked for
InitTable ==
    \E table_name \in TableNameInputs, columns \in ColumnLists :
        /\ now = 0
        /\ InitMeasureManager(NoFile, NoFile, 0)
        /\ InitSchemaManager(NoFile, 0)
        /\ InitContextBuilder(Workspace, Dataset)
        /\ remote_history = "unused"
        /\ threads = NoThreads
        /\ last = [op |-> "table", table_name |-> table_name,
                   columns |-> columns]

\* _categorize_table(table_name, columns) of the table asked for
CallCategorizeTable ==
    /\ last.op = "table"
    /\ \E c \in { CategorizeTable(last.table_name, last.columns) } :
          last' = [op |-> "_categorize_table", table_name |-> last.table_name,
                   columns |-> last.columns, is_fact |-> c[1],
                   confidence |-> c[2]]
    /\ UNCHANGED << now, measure_vars, schema_vars, builder_vars,
                   remote_history, threads >>

NextTable == CallCategorizeTable

SpecTable == InitTable /\ [][NextTable]_vars

---------------------------------------------------------------------------
(* Clearing the context cache that several deployments share *)

\* another workspace whose contexts are kept in the same context_cache.sqlite
OtherWorkspace == <<"S","a","l","e","s">>

InitClear == InitFiles({NoFile}, {NoFile}, {NoFile})

NextClear ==
    \/ \E w \in { Workspace, OtherWorkspace } : Restart(w, Dataset)
    \/ \E t \in { ContextTypes[i] : i \in 1..Len(ContextTypes) }, f \in BOOLEAN :
          BuildContextCached(t, f)
    \/ \E t \in { ContextTypes[i] : i \in 1..Len(ContextTypes) } \cup { None } :
          ClearContextCache(t)

SpecClear == InitClear /\ [][NextClear]_vars

---------------------------------------------------------------------------
(* Discovery of two models by one process: the configured one, for which    *)
(* the builder and get_measure_mapping answer, and another one               *)

\* what the measures query answers for the model of a workspace
MeasuresOfModel(workspace) ==
    IF workspace = Workspace
    THEN [format |-> "list", has_rows |-> TRUE, rows |->
             << [name |-> <<"R","e","v","e","n","u","e","_","A","I">>, description |-> <<"T","o","t","a","l"," ","s","a","l","e","s">>] >>]
    ELSE [format |-> "list", has_rows |-> TRUE, rows |->
             << [name |-> <<"C","a","s","h","_","A","I">>, description |-> <<"C","a","s","h"," ","a","t"," ","b","a","n","k">>] >>]

\* what the tables and columns queries answer for the model of a workspace
TablesOfModel(workspace) ==
    [format |-> "list", has_rows |-> TRUE, rows |->
        << [name |-> IF workspace = Workspace THEN <<"J","o","u","r","n","a","l","s">> ELSE <<"O","r","d","e","r","s">>] >>]

ColumnsOfModel(workspace) ==
    [format |-> "list", has_rows |-> TRUE, rows |->
        << [table |-> IF workspace = Workspace THEN <<"J","o","u","r","n","a","l","s">> ELSE <<"O","r","d","e","r","s">>,
            name |-> <<"A","m","o","u","n","t">>] >>]

InitScope == InitFiles({NoFile}, {NoFile}, {NoFile})

NextScope ==
    \/ \E w \in { Workspace, OtherWorkspace }, fail_at \in {0, 1} :
          DiscoverMeasures(w, Dataset, FALSE,
                           [fail_at |-> fail_at, error |-> "PowerBIError",
                            result |-> MeasuresOfModel(w)])
    \/ \E w \in { Workspace, OtherWorkspace }, fail_at \in {0, 1} :
          DiscoverSchema(w, Dataset, FALSE,
                         [fail_at |-> fail_at, error |-> "PowerBIError",
                          tables |-> TablesOfModel(w),
                          columns |-> ColumnsOfModel(w)])
    \/ \E g \in { <<"r","e","v","e","n","u","e">>, <<"c","a","s","h">> } : LookupMeasureMapping(g)
    \/ \E t \in { <<"m","e","a","s","u","r","e","s">>, <<"s","c","h","e","m","a">> }, f \in BOOLEAN : BuildContextCached(t, f)

SpecScope == InitScope /\ [][NextScope]_vars

---------------------------------------------------------------------------
(* _categorize_measure as a function: a measure name and a description are  *)
(* drawn, the classifier is called on them (twice at most, to compare the    *)
(* answers), or a discovery finds the measure in the model                   *)

MeasureWords ==
    { <<"S","a","l","e","s">>, <<"P","r","o","f","i","t">>, <<"G","r","o","s","s">>, <<"E","B","I","T","D","A">>, <<"N","e","t">>, <<"C","a","s","h">>, <<"A","s","s","e","t">>, <<"T","o","t","a","l">>,
      <<"F","i","x","e","d">>, <<"W","C">>, <<"D","e","b","t">>, <<"E","q","u","i","t","y">>, <<"O","t","h","e","r">> }

MaxWords == 2

RECURSIVE JoinWords(_)
JoinWords(words) ==
    IF words = << >> THEN << >>
    ELSE IF Len(words) = 1 THEN words[1]
    ELSE words[1] \o <<" ">> \o JoinWords(Tail(words))

MeasureNameInputs ==
    UNION { { JoinWords(words) : words \in [1..n -> MeasureWords] } : n \in 0..MaxWords }

DescriptionInputs == { << >>, <<"T","o","t","a","l"," ","s","a","l","e","s">> }

\* the measure whose classification is asked for
InitMeasure ==
    \E measure_name \in MeasureNameInputs, description \in DescriptionInputs :
        /\ now = 0
        /\ InitMeasureManager(NoFile, NoFile, 0)
        /\ InitSchemaManager(NoFile, 0)
        /\ InitContextBuilder(Workspace, Dataset)
        /\ remote_history = "unused"
        /\ threads = NoThreads
        /\ last = [op |-> "measure", measure_name |-> measure_name,
                   formula |-> description]

\* _categorize_measure(measure_name, formula) of the measure asked for, and
\* once more on the same arguments
CallCategorizeMeasure ==
    /\ \/ last.op = "measure"
       \/ last.op = "_categorize_measure" /\ ~last.again
    /\ \E c \in { CategorizeMeasure(last.measure_name, last.formula) } :
          last' = [op |-> "_categorize_measure",
                   measure_name |-> last.measure_name,
                   formula |-> last.formula,
                   category |-> c[1], confidence |-> c[2], aliases |-> c[3],
                   again |-> last.op = "_categorize_measure",
                   previous |-> IF last.op = "_categorize_measure"
                                THEN << last.category, last.confidence,
                                        last.aliases >>
                                ELSE << >>]
    /\ UNCHANGED << now, measure_vars, schema_vars, builder_vars,
                   remote_history, threads >>

\* the measures query answers the measure asked for, carrying the marker
MeasureRow(measure_name, description) ==
    [format |-> "list", has_rows |-> TRUE, rows |->
        << [name |-> measure_name \o <<"_","A","I">>, description |-> description] >>]

NextMeasure ==
    \/ CallCategorizeMeasure
    \/ /\ last.op = "measure"
       /\ DiscoverMeasures(Workspace, Dataset, FALSE,
                           [fail_at |-> 0, error |-> "",
                            result |-> MeasureRow(last.measure_name, last.formula)])

SpecMeasure == InitMeasure /\ [][NextMeasure]_vars

---------------------------------------------------------------------------
(* Table name correction over the schemas a process can have loaded *)

DiscoveredTableNames == { <<"_","D","a","t","e">>, <<"D","a","t","e">>, <<"J","o","u","r","n","a","l","s">>, <<"J","o","u","r","n","a","l"," ","M","a","p","p","i","n","g">> }

AssumedNames == { <<"d","a","t","e">>, <<"D","a","t","e">>, <<"J","O","U","R","N","A","L","S">>, <<"j","o","u","r","n","a","l">>, <<"m","a","p","p","i","n","g">>, <<"B","u","d","g","e","t">> }

MaxTables == 3

\* the lists of up to MaxTables different table names
TableNameLists ==
    { names \in UNION { [1..n -> DiscoveredTableNames] : n \in 0..MaxTables } :
        \A i, j \in 1..Len(names) : i # j => names[i] # names[j] }

\* what the tables query answers for a model with these tables
TablesNamed(names) ==
    [format |-> "list", has_rows |-> TRUE,
     rows |-> << >> \o [i \in 1..Len(names) |-> [name |-> names[i]]]]

InitCorrect == InitFiles({NoFile}, {NoFile}, {NoFile})

NextCorrect ==
    \/ \E names \in TableNameLists :
          DiscoverSchema(Workspace, Dataset, FALSE,
                         [fail_at |-> 0, error |-> "",
                          tables |-> TablesNamed(names), columns |-> NoRows])
    \/ \E assumed_name \in AssumedNames : LookupCorrectedTableName(assumed_name)

SpecCorrect == InitCorrect /\ [][NextCorrect]_vars

---------------------------------------------------------------------------
(* Complete builds over a cache that cached builds of single context types  *)
(* have filled at different times                                            *)

InitGate == InitFiles({NoFile}, {NoFile}, SchemaCacheFiles)

NextGate ==
    \/ Tick
    \/ \E t \in { ContextTypes[i] : i \in 1..Len(ContextTypes) }, f \in BOOLEAN :
          BuildContextCached(t, f)
    \/ BuildCompleteContextOptimized(FALSE)

SpecGate == InitGate /\ [][NextGate]_vars

---------------------------------------------------------------------------
(* Cached builds over classifier caches that make the builds fail: a cache   *)
(* file holds a confidence that is not a number until a discovery replaces   *)
(* it                                                                        *)

BrokenMeasureFile ==
    [exists |-> TRUE, timestamp |-> -6, measures |->
        << DiscoveredMeasure(<<"B","r","o","k","e","n","_","A","I">>, << >>, <<"r","e","v","e","n","u","e">>, NullConfidence, << >>) >>]

BrokenSchemaFile ==
    [exists |-> TRUE, timestamp |-> -6, tables |->
        << TableSchema(<<"J","o","u","r","n","a","l","s">>, << <<"A","m","o","u","n","t">> >>, TRUE, NullFloat) >>]

InitDegraded ==
    InitFiles({ BrokenMeasureFile }, {NoFile}, { BrokenSchemaFile })

NextDegraded ==
    \/ Tick
    \/ DiscoverMeasures(Workspace, Dataset, FALSE,
                        [fail_at |-> 0, error |-> "",
                         result |-> MeasuresOfModel(Workspace)])
    \/ DiscoverSchema(Workspace, Dataset, FALSE,
                      [fail_at |-> 0, error |-> "",
                       tables |-> TablesOfModel(Workspace),
                       columns |-> ColumnsOfModel(Workspace)])
    \/ \E t \in { <<"m","e","a","s","u","r","e","s">>, <<"s","c","h","e","m","a">> }, f \in BOOLEAN : BuildContextCached(t, f)

SpecDegraded == InitDegraded /\ [][NextDegraded]_vars

---------------------------------------------------------------------------
(* Cached builds over a context_cache.sqlite whose statements can fail *)

\* which statements succeed: all of them, none of them, or all but the UPDATE
\* of the lookup
StoreOutcomes ==
    { o \in [select : BOOLEAN, update : BOOLEAN, insert : BOOLEAN, log : BOOLEAN] :
        /\ o.select = o.insert /\ o.insert = o.log
        /\ o.update => o.select }

InitStore == InitFiles({NoFile}, {NoFile}, SchemaCacheFiles \ {NoFile})

NextStore ==
    \/ Tick
    \/ \E t \in { <<"m","e","a","s","u","r","e","s">>, <<"s","c","h","e","m","a">> }, f \in BOOLEAN, store \in StoreOutcomes :
          BuildContextCachedOver(t, f, store)

SpecStore == InitStore /\ [][NextStore]_vars

---------------------------------------------------------------------------
(* Two threads discover the measures of one model on the same manager *)

Threads == { "A", "B" }

\* what the measures query answers, before and after the model was changed
ChangingModel == { MeasuresOfModel(Workspace), MeasuresOfModel(OtherWorkspace) }

InitRace == InitFiles(MeasureCacheFiles, {NoFile}, {NoFile})

NextRace ==
    \/ Tick
    \/ \E t \in Threads :
          \/ \E measures_result \in ChangingModel : DiscoverBegin(t, measures_result)
          \/ DiscoverAssign(t)
          \/ DiscoverStamp(t)
          \/ DiscoverSnapshot(t)
          \/ DiscoverWrite(t)
          \/ DiscoverReturn(t)

SpecRace == InitRace /\ [][NextRace]_vars

---------------------------------------------------------------------------
(* Discoveries over cache files that may be unwritable *)

\* the client answers one model or the other, or a critical call raises
PersistMeasureRemotes ==
    { [fail_at |-> f, error |-> IF f = 0 THEN "" ELSE "PowerBIError",
       result |-> MeasuresOfModel(w)] :
        f \in 0..3, w \in { Workspace, OtherWorkspace } }

PersistSchemaRemotes ==
    { [fail_at |-> f, error |-> IF f = 0 THEN "" ELSE "PowerBIError",
       tables |-> TablesOfModel(Workspace), columns |-> ColumnsOfModel(Workspace)] :
        f \in 0..4 }

InitPersist ==
    InitFiles({ NoFile, BrokenMeasureFile },
              { NoFile, [exists |-> TRUE,
                         mappings |-> DictSet(<< >>, <<"r","e","v","e","n","u","e">>, <<"M","y"," ","R","e","v","e","n","u","e">>)] },
              { NoFile, BrokenSchemaFile })

NextPersist ==
    \/ Tick
    \/ \E r \in PersistMeasureRemotes, write_ok \in BOOLEAN :
          DiscoverMeasuresOver(Workspace, Dataset, FALSE, r, write_ok)
    \/ \E r \in PersistSchemaRemotes, write_ok \in BOOLEAN :
          DiscoverSchemaOver(Workspace, Dataset, FALSE, r, write_ok)

SpecPersist == InitPersist /\ [][NextPersist]_vars

---------------------------------------------------------------------------
(* Schema discoveries of one table, which the tables query describes or     *)
(* which only the columns query knows                                        *)

\* column lists by kind: v value-like columns, then i identifier-like ones,
\* then o others
ColumnsByKind ==
    { [k \in 1..v |-> <<"A","m","o","u","n","t">>]
        \o SubSeq(<< <<"A","c","c","o","u","n","t"," ","I","d">>, <<"C","o","n","t","a","c","t"," ","I","d">>, <<"C","o","s","t"," ","C","e","n","t","e","r"," ","I","d">> >>, 1, i)
        \o [k \in 1..o |-> <<"Y","e","a","r">>] :
      v \in 0..1, i \in { 0, 3 }, o \in { 0, MaxColumns - 3, MaxColumns - 1 } }

\* the rows of the columns query for one table
ColumnRowsOf(table_name, columns) ==
    [format |-> "list", has_rows |-> TRUE, rows |->
        [k \in 1..Len(columns) |-> [table |-> table_name, name |-> columns[k]]]]

\* the rows of the tables query: the table when it has a description
TableRowsOf(table_name, described) ==
    IF described
    THEN [format |-> "list", has_rows |-> TRUE, rows |-> << [name |-> table_name] >>]
    ELSE NoRows

InitSchema == InitFiles({NoFile}, {NoFile}, {NoFile})

NextSchema ==
    \E table_name \in TableNameInputs, described \in BOOLEAN :
        \E columns \in { c \in ColumnsByKind : Len(c) \in 1..MaxColumns } :
            DiscoverSchema(Workspace, Dataset, FALSE,
                           [fail_at |-> 0, error |-> "",
                            tables |-> TableRowsOf(table_name, described),
                            columns |-> ColumnRowsOf(table_name, columns)])

SpecSchema == InitSchema /\ [][NextSchema]_vars

---------------------------------------------------------------------------
(* Two threads run cached builds of the schema context over one store *)

InitBuilds == InitFiles({NoFile}, {NoFile}, SchemaCacheFiles \ {NoFile})

NextBuilds ==
    \/ Tick
    \/ \E t \in Threads :
          \/ \E f \in BOOLEAN : BuildBegin(t, <<"s","c","h","e","m","a">>, f)
          \/ BuildSelect(t)
          \/ BuildUpdate(t)
          \/ BuildStore(t)
          \/ BuildLog(t)

SpecBuilds == InitBuilds /\ [][NextBuilds]_vars

---------------------------------------------------------------------------
(* The measures context while mappings are saved and measures discovered *)

\* the generic names mappings are saved for: one of FINANCIAL_MEASURES, one not
SavedNames == { <<"r","e","v","e","n","u","e">>, <<"S","a","l","e","s"," ","T","o","t","a","l">> }

InitFresh == InitFiles({NoFile}, {NoFile}, {NoFile})

NextFresh ==
    \/ Tick
    \/ \E a \in ActualNames : SaveCustomMapping(<<"r","e","v","e","n","u","e">>, a, TRUE)
    \/ SaveCustomMapping(<<"S","a","l","e","s"," ","T","o","t","a","l">>, <<"R","e","v","e","n","u","e","_","A","I">>, TRUE)
    \/ DiscoverMeasures(Workspace, Dataset, FALSE,
                        [fail_at |-> 0, error |-> "",
                         result |-> MeasuresOfModel(Workspace)])
    \/ \E f \in BOOLEAN : BuildContextCached(<<"m","e","a","s","u","r","e","s">>, f)

SpecFresh == InitFresh /\ [][NextFresh]_vars

---------------------------------------------------------------------------
(* One context_cache.sqlite used under settings whose names hold underscores *)

\* default workspace and dataset names of the settings the server is started
\* with
UnderscoreSettings == { << <<"F","i","n","_","E","U">>, <<"P","o","h","o","d","a">> >>, << <<"F","i","n">>, <<"E","U","_","P","o","h","o","d","a">> >> }

InitKey == InitFiles({NoFile}, {NoFile}, {NoFile})

NextKey ==
    \/ \E settings \in UnderscoreSettings : Restart(settings[1], settings[2])
    \/ \E t \in { <<"m","e","a","s","u","r","e","s">>, <<"f","i","n","a","n","c","i","a","l","_","h","i","e","r","a","r","c","h","y">> }, f \in BOOLEAN :
          BuildContextCached(t, f)

SpecKey == InitKey /\ [][NextKey]_vars

---------------------------------------------------------------------------
(* Claims *)

\* the last call was get_measure_mapping
Looked == last.op = "get_measure_mapping"

\* positions of the cached measures that match g by category (step 2)
CategoryHits(g) ==
    { i \in 1..Len(cached_measures) :
        cached_measures[i].category = g /\ cached_measures[i].confidence > 60 }

\* positions of the cached measures one of whose aliases is a substring of text
AliasHits(text) ==
    { i \in 1..Len(cached_measures) :
        \E k \in 1..Len(cached_measures[i].aliases) :
            Contains(cached_measures[i].aliases[k], text) }

\* C1 (priority law): whenever a custom mapping exists for generic_name,
\* get_measure_mapping(generic_name) returns that mapping's actual measure
\* name, whatever the discovered-measure cache and the static table hold.
C1_PriorityLaw ==
    (Looked /\ HasMapping(last.generic_name))
        => last.result = measure_mappings[last.generic_name]

\* C1 witness: a mapped name was looked up while a discovered measure of
\* another name matched it by category and the static table held it too.
C1_Witness ==
    /\ Looked
    /\ HasMapping(last.generic_name)
    /\ \E i \in CategoryHits(last.generic_name) :
          cached_measures[i].name # measure_mappings[last.generic_name]
    /\ InFinancialMeasures(last.generic_name)
    /\ last.result = measure_mappings[last.generic_name]

\* r is what the four-step resolution order gives for g, the alias step
\* matching aliases against alias_text
ResolvedInOrder(g, r, alias_text) ==
    IF HasMapping(g) THEN r = measure_mappings[g]
    ELSE IF CategoryHits(g) # {}
         THEN \E i \in CategoryHits(g) : r = cached_measures[i].name
    ELSE IF AliasHits(alias_text) # {}
         THEN \E i \in AliasHits(alias_text) : r = cached_measures[i].name
    ELSE IF InFinancialMeasures(g) THEN r = FinancialMeasureDax(g)
    ELSE r = None

\* C10 as stated: get_measure_mapping resolves, first hit wins, by (1) custom
\* mapping with exactly that key, (2) a cached measure whose category equals
\* generic_name with confidence > 0.6, (3) a cached measure one of whose
\* aliases is a substring of generic_name, (4) the static table, else absent.
C10_AsStated ==
    Looked => ResolvedInOrder(last.generic_name, last.result, last.generic_name)

\* C10 amended: the same order, step (3) matching the aliases against the
\* lower-cased generic_name (steps 1, 2 and 4 compare it as given).
C10_ResolutionOrder ==
    Looked => ResolvedInOrder(last.generic_name, last.result,
                              Lower(last.generic_name))

\* C10 witness: a name with capitals, unmapped and matching no category, was
\* resolved through an alias that is a substring of its lower-cased form only.
C10_Witness ==
    /\ Looked
    /\ ~HasMapping(last.generic_name)
    /\ CategoryHits(last.generic_name) = {}
    /\ AliasHits(last.generic_name) = {}
    /\ AliasHits(Lower(last.generic_name)) # {}
    /\ last.result # None

\* C10 witness for the last step: the static value was returned, and no
\* custom mapping, category or alias matched.
C10_WitnessStatic ==
    /\ Looked
    /\ InFinancialMeasures(last.generic_name)
    /\ last.result = FinancialMeasureDax(last.generic_name)
    /\ ~HasMapping(last.generic_name)
    /\ CategoryHits(last.generic_name) = {}
    /\ AliasHits(Lower(last.generic_name)) = {}
    /\ cached_measures # << >>

---------------------------------------------------------------------------
(* Claims about the context cache, checked under SpecCache *)

\* the hour an ISO timestamp of the cache table denotes
ParseIso(text) == CHOOSE t \in 0..(MaxTime + ttl_hours + 1) : IsoFormat(t) = text

\* the last call was a cached build of one context type
Built == last.op = "build_context_cached"

\* the cache id the last cached build worked on
BuiltId == ContextId(last.context_type)

\* the last cached build found a row under its id, expired or not
HadEntry == Built /\ BuiltId \in DOMAIN last.before

\* the last cached build went the way of a call that finds no row: it was
\* not a hit, it returned the freshly built document, and that document was
\* stored under a new row created at the time of the call
BuiltAsIfAbsent ==
    /\ ~last.cache_hit
    /\ now = last.at => last.result = FreshContext(last.context_type).doc
    /\ BuiltId \in DOMAIN context_cache
    /\ context_cache[BuiltId].created_at = IsoFormat(last.at)
    /\ JsonLoads(context_cache[BuiltId].context_data) = last.result

\* C2: a cached build returns the stored payload only if force_refresh is
\* false and the call is made before the entry's expires_at; an entry whose
\* expires_at has been reached is treated as absent, and a forced call never
\* returns the stored payload.
C2_ServedOnlyUnexpired ==
    Built =>
        /\ last.cache_hit =>
              /\ ~last.force_refresh
              /\ HadEntry
              /\ last.at < ParseIso(last.before[BuiltId].expires_at)
              /\ last.result = JsonLoads(last.before[BuiltId].context_data)
        /\ (HadEntry /\ last.at >= ParseIso(last.before[BuiltId].expires_at))
              => BuiltAsIfAbsent
        /\ (HadEntry /\ last.force_refresh) => BuiltAsIfAbsent

\* an unforced build at the very hour its entry expires, rebuilt
C2_Witness ==
    /\ HadEntry
    /\ ~last.force_refresh
    /\ last.at = ParseIso(last.before[BuiltId].expires_at)
    /\ ~last.cache_hit

\* C3: an entry built at T and read without force_refresh at T+D is returned
\* unchanged, with the same content_hash, iff D < 24h; at D >= 24h the call
\* rebuilds, and the new entry has hit_count 0 and expires 24 hours after the
\* rebuild.
C3_TtlLaw ==
    (HadEntry /\ ~last.force_refresh) =>
        LET old == last.before[BuiltId]
            D == last.at - ParseIso(old.created_at)
            unchanged ==
                /\ last.cache_hit
                /\ last.result = JsonLoads(old.context_data)
                /\ context_cache[BuiltId].content_hash = old.content_hash
                /\ context_cache[BuiltId].context_data = old.context_data
                /\ context_cache[BuiltId].created_at = old.created_at
                /\ context_cache[BuiltId].expires_at = old.expires_at
        IN  /\ D < 24 <=> unchanged
            /\ D >= 24 =>
                  /\ ~last.cache_hit
                  /\ context_cache[BuiltId].hit_count = 0
                  /\ context_cache[BuiltId].created_at = IsoFormat(last.at)
                  /\ context_cache[BuiltId].expires_at = IsoFormat(last.at + 24)

\* an entry that had been served was read 24 hours after it was built
C3_Witness ==
    /\ HadEntry
    /\ ~last.force_refresh
    /\ last.before[BuiltId].hit_count > 0
    /\ last.at - ParseIso(last.before[BuiltId].created_at) >= 24
    /\ context_cache[BuiltId].hit_count = 0

\* C4: two successive fresh builds of a context type from identical
\* classifier outputs store identical content_hash values.  (No action of
\* SpecCache changes the classifiers, so every two builds of a behaviour are
\* from identical classifier outputs.)
C4_IdempotentRebuild ==
    (HadEntry /\ ~last.cache_hit /\ BuiltId \in DOMAIN context_cache) =>
        context_cache[BuiltId].content_hash = last.before[BuiltId].content_hash

---------------------------------------------------------------------------
(* Claims about complete builds, checked under SpecComplete *)

\* the last call was a complete build
CompleteBuilt ==
    last.op \in { "build_complete_context_optimized", "build_complete_context" }

\* the keys of the composite document
CompleteKeys ==
    { "power_bi_model_info", "measures", "schema", "financial_hierarchy",
      "claude_quick_reference", "context_metadata" }

---------------------------------------------------------------------------
(* Claims about discovery, checked under SpecDiscovery *)

\* the last call was a discovery
Discovered == last.op \in { "discover_measures", "discover_schema" }

\* the classifier held a cache less than 24 hours old when the call was made
HadUnexpiredCache ==
    /\ last.before.last_discovery # NoTime
    /\ last.at - last.before.last_discovery < 24

\* what a discovery parses out of the answers of the client
ParsedResult ==
    IF last.op = "discover_measures"
    THEN ParseMeasuresResult(last.remote.result)
    ELSE BuildTables(TableInfoKeys(ResultRows(last.remote.tables), << >>),
                     TableColumns(ResultRows(last.remote.columns), << >>))

\* the client answered every call of the last discovery in a known format
Answered ==
    /\ last.remote.fail_at = 0
    /\ IF last.op = "discover_measures"
       THEN ~ParseRaises(last.remote.result)
       ELSE ~ParseRaises(last.remote.tables) /\ ~ParseRaises(last.remote.columns)

\* C6 as stated: a discover call with force_refresh = false made while an
\* unexpired cache exists issues no client call and returns the cached content.
C6_AsStated ==
    (Discovered /\ ~last.force_refresh /\ HadUnexpiredCache) =>
        /\ last.client_calls = 0
        /\ last.result = last.before.cached

\* C6, amended: discovery has no cache-or-refresh gate.  Every discover call,
\* whatever force_refresh and the age of the cache, calls the client, and when
\* the client answers, the result is what was parsed from the answers and
\* replaces the cache; the 24-hour window only decides whether the cache file
\* is loaded at construction, at time 0.
C6_AlwaysRemote ==
    /\ Discovered =>
          /\ last.client_calls >= 1
          /\ Answered => last.result = ParsedResult
          /\ (Answered /\ last.op = "discover_measures") =>
                cached_measures = last.result /\ last_discovery = last.at
          /\ (Answered /\ last.op = "discover_schema") =>
                cached_tables = last.result /\ schema_last_discovery = last.at
    /\ last.op = "init" =>
          /\ cached_measures # << >> =>
                measure_cache_file.exists /\ 0 - measure_cache_file.timestamp < 24
          /\ (measure_cache_file.exists /\ 0 - measure_cache_file.timestamp >= 24)
                => cached_measures = << >> /\ last_discovery = NoTime

\* an unforced measure discovery over an unexpired cache replaced it with
\* something else
C6_Witness ==
    /\ last.op = "discover_measures"
    /\ ~last.force_refresh
    /\ HadUnexpiredCache
    /\ last.before.cached # << >>
    /\ last.result # last.before.cached
    /\ cached_measures = last.result

\* the rows a measures query result carries
RowsOf(result) == IF result.has_rows THEN result.rows ELSE << >>

\* the two rows of the scenario
ScenarioRows ==
    << [name |-> <<"R","e","v","e","n","u","e","_","A","I">>, description |-> <<"T","o","t","a","l"," ","s","a","l","e","s">>],
       [name |-> <<"H","e","l","p","e","r","1">>, description |-> <<"i","n","t","e","r","n","a","l">>] >>

\* C7: the map returned by a successful measure discovery contains exactly the
\* rows whose name contains "_AI"; the rows Revenue_AI / "Total sales" and
\* Helper1 / "internal" yield the single key Revenue_AI, category revenue,
\* confidence 0.9.
C7_MarkerFilter ==
    (last.op = "discover_measures" /\ last.remote.fail_at \notin 1..3
     /\ ~ParseRaises(last.remote.result)) =>
        LET rows == RowsOf(last.remote.result)
            result == last.result
        IN  /\ { result[i].name : i \in 1..Len(result) }
                  = { rows[i].name : i \in { k \in 1..Len(rows) :
                                                Contains(<<"_","A","I">>, rows[k].name) } }
            /\ \A i, j \in 1..Len(result) : result[i].name = result[j].name => i = j
            /\ rows = ScenarioRows =>
                  /\ Len(result) = 1
                  /\ result[1].name = <<"R","e","v","e","n","u","e","_","A","I">>
                  /\ result[1].category = <<"r","e","v","e","n","u","e">>
                  /\ result[1].confidence = 90

\* the scenario was discovered
C7_Witness ==
    /\ last.op = "discover_measures"
    /\ last.remote.fail_at = 0
    /\ last.remote.result.rows = ScenarioRows
    /\ Len(last.result) = 1

\* C8 as stated: on any remote-call failure both discover operations return
\* an empty map and do not raise.
C8_AsStated ==
    (Discovered /\ last.remote.fail_at # 0) =>
        last.result = << >> /\ last.raised = ""

\* C8, amended: no discover call raises.  A failure of the workspace lookup,
\* the dataset lookup or the measures query (of any query, for the schema)
\* gives an empty map; a failure of one of the additional queries of the
\* measure discovery is ignored, and the measures parsed before it are
\* returned and cached.
C8_FailureOutcome ==
    Discovered =>
        /\ last.raised = ""
        /\ (last.op = "discover_measures" /\ last.remote.fail_at \in 1..3)
              => last.result = << >>
        /\ (last.op = "discover_measures" /\ last.remote.fail_at \in 4..6)
              => last.result = ParsedResult /\ cached_measures = last.result
        /\ (last.op = "discover_schema" /\ last.remote.fail_at # 0)
              => last.result = << >>

\* a measure discovery returned measures although an additional query failed
C8_Witness ==
    /\ last.op = "discover_measures"
    /\ last.remote.fail_at \in 4..6
    /\ last.result # << >>

\* the workspace or the dataset of the last discovery was not found
NotFound ==
    /\ Discovered
    /\ \/ last.remote.fail_at = 1 /\ last.remote.error = "WorkspaceNotFoundError"
       \/ last.remote.fail_at = 2 /\ last.remote.error = "DatasetNotFoundError"

\* C9 as stated: a discovery whose workspace or dataset is absent propagates
\* a named error to its caller.
C9_AsStated == NotFound => last.raised = last.remote.error

\* C9, amended: a discovery whose workspace or dataset is absent does not
\* propagate the error: it logs it and returns the empty map, which is what a
\* discovery that found nothing returns, and leaves the cache as it was.
C9_NotFoundAbsorbed ==
    NotFound =>
        /\ last.raised = ""
        /\ last.logged = last.remote.error
        /\ last.result = << >>
        /\ last.op = "discover_measures" => cached_measures = last.before.cached
        /\ last.op = "discover_schema" => cached_tables = last.before.cached

\* a measure discovery of an absent workspace over a cache that holds measures
C9_Witness ==
    /\ NotFound
    /\ last.op = "discover_measures"
    /\ last.remote.fail_at = 1
    /\ last.before.cached # << >>

---------------------------------------------------------------------------
(* save_custom_mapping *)

\* the last call was save_custom_mapping
Saved == last.op = "save_custom_mapping"

\* the mappings file as a successful save of dict m leaves it
PersistedMappings(m) == [exists |-> TRUE, mappings |-> m]

\* C11: save_custom_mapping(generic_name, actual_name) overwrites any previous
\* mapping for generic_name, leaves the mappings of all other generic names
\* as they were, and (when the write succeeds) persists the whole mapping;
\* it is idempotent: applied to a state that already is the outcome of the
\* same call, it changes neither the in-memory nor the persisted mapping.
C11_OverwritePersistIdempotent ==
    Saved =>
        LET g == last.generic_name
            a == last.actual_measure_name
            old == last.before.mappings
        IN  /\ DOMAIN measure_mappings = DOMAIN old \cup {g}
            /\ measure_mappings[g] = a
            /\ \A k \in DOMAIN old \ {g} : measure_mappings[k] = old[k]
            /\ last.result => mapping_file = PersistedMappings(measure_mappings)
            /\ (g \in DOMAIN old /\ old[g] = a) => measure_mappings = old
            /\ (g \in DOMAIN old /\ old[g] = a
                  /\ last.before.file = PersistedMappings(old))
                 => mapping_file = last.before.file

\* C11 witness: a save replaced a different earlier mapping of the same
\* generic name, next to a mapping of another name, and was persisted.
C11_Witness ==
    /\ Saved /\ last.result
    /\ last.generic_name \in DOMAIN last.before.mappings
    /\ last.before.mappings[last.generic_name] # last.actual_measure_name
    /\ DOMAIN measure_mappings # {last.generic_name}
    /\ mapping_file = PersistedMappings(measure_mappings)

\* C11 witness of the repeated call: the same save applied to its own outcome
C11_WitnessRepeated ==
    /\ Saved /\ last.result
    /\ last.generic_name \in DOMAIN last.before.mappings
    /\ last.before.mappings[last.generic_name] = last.actual_measure_name
    /\ last.before.file = PersistedMappings(last.before.mappings)
    /\ mapping_file = last.before.file

---------------------------------------------------------------------------
(* _categorize_table *)

\* the last call was _categorize_table
Categorized == last.op = "_categorize_table"

\* some column of the list is the given one
HasColumn(columns, name) == \E i \in 1..Len(columns) : columns[i] = name

\* the columns naming a measurable quantity (amount/value/quantity/balance)
ValueLike(columns) ==
    { i \in 1..Len(columns) : AnyIn(value_indicators, Lower(columns[i])) }

\* C12 (fact/dimension boundary): a table named "Journals" whose columns
\* include "Amount", "Account Id", "Contact Id" and "Cost Center Id" is
\* classified as a fact table with confidence >= 0.5; a table named "_Date"
\* with 4 columns none of which is value-like is classified as not a fact
\* table.
C12_FactDimensionBoundary ==
    Categorized =>
        /\ ( /\ last.table_name = <<"J","o","u","r","n","a","l","s">>
             /\ HasColumn(last.columns, <<"A","m","o","u","n","t">>)
             /\ HasColumn(last.columns, <<"A","c","c","o","u","n","t"," ","I","d">>)
             /\ HasColumn(last.columns, <<"C","o","n","t","a","c","t"," ","I","d">>)
             /\ HasColumn(last.columns, <<"C","o","s","t"," ","C","e","n","t","e","r"," ","I","d">>) )
           => (last.is_fact /\ ~FloatLess(last.confidence, Float_0_5))
        /\ ( /\ last.table_name = <<"_","D","a","t","e">>
             /\ Len(last.columns) = 4
             /\ ValueLike(last.columns) = {} )
           => ~last.is_fact

\* C12 witness: the Journals table of the claim, with exactly its four
\* columns, has been classified as a fact table.
C12_Witness ==
    /\ Categorized
    /\ last.table_name = <<"J","o","u","r","n","a","l","s">>
    /\ last.columns = << <<"A","m","o","u","n","t">>, <<"A","c","c","o","u","n","t"," ","I","d">>, <<"C","o","n","t","a","c","t"," ","I","d">>, <<"C","o","s","t"," ","C","e","n","t","e","r"," ","I","d">> >>
    /\ last.is_fact

\* C12 witness of the dimension side: a _Date table of four columns, three
\* of them identifiers, has been classified as not a fact table
C12_WitnessDate ==
    /\ Categorized
    /\ last.table_name = <<"_","D","a","t","e">>
    /\ last.columns = << <<"Y","e","a","r">>, <<"A","c","c","o","u","n","t"," ","I","d">>, <<"C","o","n","t","a","c","t"," ","I","d">>, <<"C","o","s","t"," ","C","e","n","t","e","r"," ","I","d">> >>
    /\ ~last.is_fact

\* the weighted score as specified, in hundredths, in exact arithmetic
SpecifiedScore(table_name, columns) ==
    LET name_lower == Lower(table_name)
        values == Cardinality(ValueLike(columns))
        ids == Cardinality({ i \in 1..Len(columns) :
                               EndsWith(Lower(columns[i]), <<"i","d">>) })
    IN  (IF AnyIn(fact_indicators, name_lower) THEN 40 ELSE 0)
        + (IF values > 0 THEN 30 + 10 * values ELSE 0)
        + (IF ids >= 3 THEN 20 ELSE 0)
        - (IF AnyIn(dimension_indicators, name_lower) THEN 30 ELSE 0)
        - (IF Len(columns) < 5 THEN 10 ELSE 0)

\* C17: for every table name and column list, _categorize_table returns
\* is_fact = (score > 0.5) and confidence = clamp(score, 0.1, 1.0) for exactly
\* the specified weighted score (so that the confidence exceeds 0.5 exactly
\* when the specified score does).
C17_SpecifiedScore ==
    Categorized =>
        LET score == SpecifiedScore(last.table_name, last.columns)
        IN  /\ last.is_fact = (score > 50)
            /\ FloatLess(Float_0_5, last.confidence) = (Min(score, 100) > 50)

---------------------------------------------------------------------------
(* clear_context_cache *)

\* the last call was clear_context_cache
Cleared == last.op = "clear_context_cache"

\* row is an entry of the builder's (workspace, dataset), of the given
\* context type if one is given
Targeted(row, context_type) ==
    /\ row.workspace = builder_workspace_name
    /\ row.dataset = builder_dataset_name
    /\ context_type # None => row.context_type = context_type

\* a clear removed exactly the targeted entries, reported their number, and
\* left all other entries and the performance samples as they were
ClearFrame ==
    Cleared =>
        LET before == last.before
            gone == { id \in DOMAIN before : Targeted(before[id], last.context_type) }
        IN  /\ DOMAIN context_cache = (DOMAIN before) \ gone
            /\ \A id \in DOMAIN context_cache : context_cache[id] = before[id]
            /\ last.result.success
            /\ last.result.affected = Cardinality(gone)
            /\ context_performance = last.samples_before

\* a non-forced cached build that directly follows a clear of its type (or
\* of all types) is a cache miss
ClearThenMiss ==
    ( /\ Cleared
      /\ last'.op = "build_context_cached"
      /\ ~last'.force_refresh
      /\ last.context_type \in { None, last'.context_type } )
    => ~last'.cache_hit

\* C13: clear_context_cache(context_type) removes exactly the entries of that
\* context type for the builder's (workspace, dataset), all of the pair's
\* entries when no type is given, and reports how many it removed; entries of
\* other types and of other (workspace, dataset) pairs and the performance
\* samples are unchanged; the next non-forced build of a cleared type is a
\* cache miss.
C13_ClearExactly == []ClearFrame /\ [][ClearThenMiss]_vars

\* C13 witness: a clear of one context type removed an entry while an entry
\* of another type of the same pair and an entry of another workspace stayed.
C13_Witness ==
    /\ Cleared
    /\ last.context_type # None
    /\ last.result.affected = 1
    /\ \E id \in DOMAIN context_cache :
          /\ context_cache[id].workspace = builder_workspace_name
          /\ context_cache[id].context_type # last.context_type
    /\ \E id \in DOMAIN context_cache :
          /\ context_cache[id].workspace # builder_workspace_name
          /\ context_cache[id].context_type = last.context_type

\* C13 witness of the miss: a non-forced build rebuilt the entry that had
\* been there before it was cleared
C13_WitnessMiss ==
    /\ last.op = "build_context_cached"
    /\ ~last.force_refresh
    /\ ~last.cache_hit
    /\ ContextId(last.context_type) \notin DOMAIN last.before
    /\ \E id \in DOMAIN last.before :
          last.before[id].workspace = builder_workspace_name
    /\ context_performance >= 3

---------------------------------------------------------------------------
(* Scope of the classifier caches *)

\* the last call was a discovery for another model than the configured one
DiscoveredOther ==
    /\ last.op \in { "discover_measures", "discover_schema" }
    /\ << last.workspace, last.dataset >> # << Workspace, Dataset >>

\* names of the measures that only the other model has
OnlyInOther ==
    { MeasuresOfModel(OtherWorkspace).rows[i].name :
        i \in 1..Len(MeasuresOfModel(OtherWorkspace).rows) }
    \ { MeasuresOfModel(Workspace).rows[i].name :
          i \in 1..Len(MeasuresOfModel(Workspace).rows) }

\* C14: the classifier caches are scoped per (workspace, dataset): a discovery
\* for another (workspace, dataset) leaves the measures and tables cached for
\* the configured one unchanged, and get_measure_mapping and the measures
\* context built for the configured one never name a measure discovered only
\* in the other.
C14_ScopedCaches ==
    /\ (DiscoveredOther /\ last.op = "discover_measures")
          => cached_measures = last.before.cached
    /\ (DiscoveredOther /\ last.op = "discover_schema")
          => cached_tables = last.before.cached
    /\ Looked => last.result \notin OnlyInOther
    /\ (last.op = "build_context_cached" /\ last.context_type = <<"m","e","a","s","u","r","e","s">>)
          => \A n \in OnlyInOther :
                n \notin DOMAIN last.result.recommended_measures

\* the part of C14 about lookups alone: get_measure_mapping for the
\* configured model never returns a measure discovered only in the other
C14_LookupScoped == Looked => last.result \notin OnlyInOther

---------------------------------------------------------------------------
(* The measure classifier *)

CategorizedMeasure == last.op = "_categorize_measure"

\* the keyword families in the order the spec gives them
MeasureFamilies ==
    << revenue_keywords, profit_keywords, << <<"c","a","s","h">>, <<"l","i","q","u","i","d","i","t","y">> >>,
       << <<"a","s","s","e","t">>, <<"a","s","s","e","t","s">> >>, << <<"w","o","r","k","i","n","g"," ","c","a","p","i","t","a","l">>, <<"w","c">> >>,
       << <<"d","e","b","t">>, <<"l","i","a","b","i","l","i","t","i","e","s">> >>, << <<"e","q","u","i","t","y">>, <<"s","h","a","r","e","h","o","l","d","e","r","s">> >> >>

\* the categories each family can answer
FamilyCategories ==
    << { <<"r","e","v","e","n","u","e">> }, { <<"g","r","o","s","s","_","p","r","o","f","i","t">>, <<"e","b","i","t","d","a">>, <<"n","e","t","_","p","r","o","f","i","t">>, <<"p","r","o","f","i","t">> },
       { <<"c","a","s","h">> }, { <<"t","o","t","a","l","_","a","s","s","e","t","s">>, <<"f","i","x","e","d","_","a","s","s","e","t","s">>, <<"a","s","s","e","t","s">> },
       { <<"w","o","r","k","i","n","g","_","c","a","p","i","t","a","l">> }, { <<"n","e","t","_","d","e","b","t">> }, { <<"e","q","u","i","t","y">> } >>

\* the first family with a keyword in the lowered name, 0 when there is none
FirstFamily(name_lower) ==
    LET hits == { i \in 1..Len(MeasureFamilies) :
                    AnyIn(MeasureFamilies[i], name_lower) }
    IN  IF hits = {} THEN 0 ELSE CHOOSE i \in hits : \A j \in hits : i <= j

\* the confidence that goes with a category, in hundredths
FixedConfidence(category) ==
    CASE category \in { <<"r","e","v","e","n","u","e">>, <<"e","b","i","t","d","a">>, <<"w","o","r","k","i","n","g","_","c","a","p","i","t","a","l">> } -> 90
      [] category \in { <<"g","r","o","s","s","_","p","r","o","f","i","t">>, <<"n","e","t","_","p","r","o","f","i","t">>, <<"c","a","s","h">> } -> 85
      [] category \in { <<"t","o","t","a","l","_","a","s","s","e","t","s">>, <<"f","i","x","e","d","_","a","s","s","e","t","s">>, <<"e","q","u","i","t","y">> } -> 80
      [] category \in { <<"p","r","o","f","i","t">>, <<"n","e","t","_","d","e","b","t">> } -> 70
      [] category = <<"a","s","s","e","t","s">> -> 60
      [] category = <<"u","n","k","n","o","w","n">> -> 10

\* the sub-branch of the profit family a lowered name falls in
ProfitSubCategory(name_lower) ==
    IF Contains(<<"g","r","o","s","s">>, name_lower) THEN <<"g","r","o","s","s","_","p","r","o","f","i","t">>
    ELSE IF Contains(<<"e","b","i","t","d","a">>, name_lower) THEN <<"e","b","i","t","d","a">>
    ELSE IF Contains(<<"n","e","t">>, name_lower) THEN <<"n","e","t","_","p","r","o","f","i","t">>
    ELSE <<"p","r","o","f","i","t">>

\* C15: categorize is an ordered first-match procedure: the first family, in
\* the order revenue, profit (gross, then EBITDA, then net), cash, asset,
\* working capital, debt, equity, with a keyword in the name determines the
\* category; each category comes with its fixed confidence; a name matching no
\* family yields (unknown, 0.1, []); and a second call on the same arguments
\* returns the same tuple.
C15_OrderedFirstMatch ==
    CategorizedMeasure =>
        \A f \in { FirstFamily(Lower(last.measure_name)) } :
            /\ f = 0 => << last.category, last.confidence, last.aliases >>
                            = << <<"u","n","k","n","o","w","n">>, 10, << >> >>
            /\ f # 0 => last.category \in FamilyCategories[f]
            /\ f = 2 => last.category = ProfitSubCategory(Lower(last.measure_name))
            /\ last.confidence = FixedConfidence(last.category)
            /\ last.again => last.previous = << last.category, last.confidence,
                                                last.aliases >>

\* a name with keywords of two families was classified twice, and the earlier
\* family won
C15_Witness ==
    /\ CategorizedMeasure
    /\ last.again
    /\ last.measure_name = <<"P","r","o","f","i","t"," ","S","a","l","e","s">>
    /\ last.category = <<"r","e","v","e","n","u","e">>

\* a name matching no family was classified
C15_WitnessNoMatch ==
    /\ CategorizedMeasure
    /\ last.measure_name = <<"O","t","h","e","r">>
    /\ last.category = <<"u","n","k","n","o","w","n">>

\* the categories of the data model
SpecCategories ==
    { <<"r","e","v","e","n","u","e">>, <<"g","r","o","s","s","_","p","r","o","f","i","t">>, <<"e","b","i","t","d","a">>, <<"n","e","t","_","p","r","o","f","i","t">>, <<"c","a","s","h">>,
      <<"w","o","r","k","i","n","g","_","c","a","p","i","t","a","l">>, <<"t","o","t","a","l","_","a","s","s","e","t","s">>, <<"e","q","u","i","t","y">>, <<"u","n","k","n","o","w","n">> }

\* the categories _categorize_measure can answer
CodeCategories ==
    SpecCategories \cup { <<"p","r","o","f","i","t">>, <<"f","i","x","e","d","_","a","s","s","e","t","s">>, <<"a","s","s","e","t","s">>, <<"n","e","t","_","d","e","b","t">> }

\* a discovery produced measures
Produced == last.op = "discover_measures" /\ last.result # << >>

WellFormedIn(categories) ==
    \A i \in 1..Len(last.result) :
        /\ last.result[i].category \in categories
        /\ last.result[i].confidence \in 0..100
        /\ last.result[i].category = <<"u","n","k","n","o","w","n">> => last.result[i].confidence <= 20

\* C16 as stated: every measure produced by discovery has a category of the
\* data model's enumeration, a confidence in [0, 1], and confidence <= 0.2
\* when the category is unknown.
C16_AsStated == Produced => WellFormedIn(SpecCategories)

\* C16: every measure produced by discovery has a category of the data
\* model's enumeration or one of profit, fixed_assets, assets, net_debt, a
\* confidence in [0, 1], and confidence <= 0.2 when the category is unknown.
C16_WellFormed == Produced => WellFormedIn(CodeCategories)

\* a discovery produced a measure of a category outside the enumeration
C16_Witness ==
    /\ Produced
    /\ \E i \in 1..Len(last.result) :
          last.result[i].category \in CodeCategories \ SpecCategories

\* a discovery produced a measure of unknown category
C16_WitnessUnknown ==
    /\ Produced
    /\ \E i \in 1..Len(last.result) : last.result[i].category = <<"u","n","k","n","o","w","n">>

---------------------------------------------------------------------------
(* Table name correction *)

LookedTable == last.op = "get_corrected_table_name"

CachedTableNames == { cached_tables[i].name : i \in 1..Len(cached_tables) }

\* the static alias of an assumed name, when it is a discovered table
TableAliasHits(assumed_lower) ==
    { table_corrections[k][2] :
        k \in { j \in 1..Len(table_corrections) :
                  table_corrections[j][1] = assumed_lower } }
    \cap CachedTableNames

\* the discovered tables named as assumed, case aside
TableExactHits(assumed_lower) ==
    { n \in CachedTableNames : Lower(n) = assumed_lower }

\* the discovered tables whose name contains the assumed one, or is contained
\* in it, case aside
TableSubstringHits(assumed_lower) ==
    { n \in CachedTableNames : \/ Contains(assumed_lower, Lower(n))
                               \/ Contains(Lower(n), assumed_lower) }

\* C18: get_corrected_table_name returns the first hit in the order static
\* alias, case-insensitive equality, substring match; it returns absent when
\* none hits, and a returned name is the name of a currently discovered table.
C18_PriorityOrder ==
    LookedTable =>
        \A a \in { Lower(last.assumed_name) } :
            /\ TableAliasHits(a) # {} => last.result \in TableAliasHits(a)
            /\ (TableAliasHits(a) = {} /\ TableExactHits(a) # {})
                  => last.result \in TableExactHits(a)
            /\ (TableAliasHits(a) = {} /\ TableExactHits(a) = {} /\ TableSubstringHits(a) # {})
                  => last.result \in TableSubstringHits(a)
            /\ (TableAliasHits(a) = {} /\ TableExactHits(a) = {} /\ TableSubstringHits(a) = {})
                  => last.result = None
            /\ last.result # None => last.result \in CachedTableNames

\* the alias won over a table that is named exactly as assumed and comes first
C18_Witness ==
    /\ LookedTable
    /\ last.assumed_name = <<"D","a","t","e">>
    /\ Len(cached_tables) = 2
    /\ cached_tables[1].name = <<"D","a","t","e">>
    /\ last.result = <<"_","D","a","t","e">>

\* the alias of the assumed name is not discovered and a substring match
\* answered
C18_WitnessSubstring ==
    /\ LookedTable
    /\ last.assumed_name = <<"m","a","p","p","i","n","g">>
    /\ last.result = <<"J","o","u","r","n","a","l"," ","M","a","p","p","i","n","g">>

\* nothing hit
C18_WitnessAbsent ==
    /\ LookedTable
    /\ cached_tables # << >>
    /\ last.result = None

---------------------------------------------------------------------------
(* The cache-hit path *)

\* the last call was a non-forced cached build that found an unexpired row
FoundUnexpired ==
    /\ HadEntry
    /\ ~last.force_refresh
    /\ TextGreater(last.before[BuiltId].expires_at, IsoFormat(last.at))

\* what a hit does to the table and what it returns
HitFrame ==
    FoundUnexpired =>
        /\ last.cache_hit
        /\ BuiltId \in DOMAIN context_cache
        /\ context_cache[BuiltId].hit_count = last.before[BuiltId].hit_count + 1
        /\ context_cache[BuiltId].last_accessed = IsoFormat(last.at)
        /\ \A field \in { "context_data", "content_hash", "created_at", "expires_at" } :
              context_cache[BuiltId][field] = last.before[BuiltId][field]
        /\ last.samples = << [context_type |-> last.context_type,
                              operation |-> "build", cache_hit |-> TRUE] >>
        /\ last.result = JsonLoads(last.before[BuiltId].context_data)

\* a hit adds one row to context_performance
HitLogsOne ==
    (last' # last /\ FoundUnexpired') => context_performance' = context_performance + 1

\* C19: a non-forced cached build that finds an unexpired entry increments the
\* entry's hit_count by exactly 1, sets last_accessed to the current time,
\* appends exactly one performance sample with cache_hit = true, returns the
\* stored payload, and leaves the entry's payload, content_hash, created_at
\* and expires_at unchanged.
C19_HitPath == []HitFrame /\ [][HitLogsOne]_vars

\* an entry was hit for the second time, later than it was created
C19_Witness ==
    /\ FoundUnexpired
    /\ last.cache_hit
    /\ context_cache[BuiltId].hit_count = 2
    /\ context_cache[BuiltId].last_accessed # context_cache[BuiltId].created_at

---------------------------------------------------------------------------
(* Gating of the sub-documents of a complete build *)

\* the last call was a non-forced complete build
GatedBuild ==
    last.op = "build_complete_context_optimized" /\ ~last.force_refresh

\* before the last call the table held an unexpired row for the i-th
\* sub-document
UnexpiredBefore(i) ==
    /\ ContextId(ContextTypes[i]) \in DOMAIN last.before
    /\ TextGreater(last.before[ContextId(ContextTypes[i])].expires_at,
                   IsoFormat(last.at))

\* the row of the i-th sub-document is the one from before the last call, hit
\* once more
HitOnly(i) ==
    /\ ContextId(ContextTypes[i]) \in DOMAIN context_cache
    /\ context_cache[ContextId(ContextTypes[i])]
         = [last.before[ContextId(ContextTypes[i])] EXCEPT
               !.hit_count = @ + 1, !.last_accessed = IsoFormat(last.at)]

\* the row of the i-th sub-document was written by the last call
Rebuilt(i) ==
    /\ ContextId(ContextTypes[i]) \in DOMAIN context_cache
    /\ context_cache[ContextId(ContextTypes[i])].created_at = IsoFormat(last.at)
    /\ context_cache[ContextId(ContextTypes[i])].hit_count = 0

\* the row of the i-th sub-document is as before the last call
Untouched(i) ==
    IF ContextId(ContextTypes[i]) \in DOMAIN last.before
    THEN /\ ContextId(ContextTypes[i]) \in DOMAIN context_cache
         /\ context_cache[ContextId(ContextTypes[i])]
              = last.before[ContextId(ContextTypes[i])]
    ELSE ContextId(ContextTypes[i]) \notin DOMAIN context_cache

\* C20: in a non-forced complete build each of the three sub-documents is
\* cache-gated on its own: it is a hit exactly when its own entry is
\* unexpired, whatever happens to the other two, and an entry that is hit is
\* neither replaced nor invalidated by the rebuild of another one.
C20_IndependentGates ==
    GatedBuild =>
        \A i \in 1..Len(ContextTypes) :
            /\ last.samples[i].context_type = ContextTypes[i]
            /\ last.samples[i].cache_hit = UnexpiredBefore(i)
            /\ UnexpiredBefore(i) => HitOnly(i)
            /\ ~UnexpiredBefore(i) => (Rebuilt(i) \/ Untouched(i))

\* a complete build hit one sub-document and rebuilt another
C20_Witness ==
    /\ GatedBuild
    /\ \E i, j \in 1..Len(ContextTypes) :
          /\ UnexpiredBefore(i) /\ HitOnly(i) /\ ~Rebuilt(i)
          /\ ~UnexpiredBefore(j) /\ Rebuilt(j)

\* a complete build rebuilt the first sub-document, whose entry had expired,
\* and hit a later one
C20_WitnessExpired ==
    /\ GatedBuild
    /\ ContextId(ContextTypes[1]) \in DOMAIN last.before
    /\ ~UnexpiredBefore(1) /\ Rebuilt(1)
    /\ \E j \in 2..Len(ContextTypes) : UnexpiredBefore(j) /\ HitOnly(j)

---------------------------------------------------------------------------
(* Degraded documents and the context cache *)

\* a document of an except branch
IsDegraded(doc) == "error" \in DOMAIN doc

\* the last call was a cached build that returned a degraded document
DegradedBuilt == Built /\ IsDegraded(last.result)

\* no row of the cache table holds a degraded document
NoDegradedPayload ==
    \A id \in DOMAIN context_cache :
        ~IsDegraded(JsonLoads(context_cache[id].context_data))

\* a degraded build wrote nothing, and it leaves no row that a build of its
\* context type at that time or later would be served
DegradedNotStored ==
    DegradedBuilt =>
        /\ ~last.cache_hit
        /\ context_cache = last.before
        /\ \/ BuiltId \notin DOMAIN context_cache
           \/ ~TextGreater(context_cache[BuiltId].expires_at, IsoFormat(last.at))

\* the build of the same context type that follows a degraded one is not
\* served from the cache
RetriesAfterDegraded ==
    ( /\ DegradedBuilt
      /\ context_performance' # context_performance
      /\ last'.op = "build_context_cached"
      /\ last'.context_type = last.context_type )
        => ~last'.cache_hit

C21_WitnessRetry ==
    /\ Built
    /\ ~IsDegraded(last.result)
    /\ ~last.cache_hit
    /\ last.context_type = <<"m","e","a","s","u","r","e","s">>
    /\ measure_cache_file.exists
    /\ BuiltId \in DOMAIN context_cache

---------------------------------------------------------------------------
(* The cache store unavailable *)

\* the last call was a cached build over a store that may fail
BuiltOver == Built /\ "store" \in DOMAIN last

\* every statement of the last cached build failed
StoreDown ==
    /\ BuiltOver
    /\ ~last.store.select /\ ~last.store.update
    /\ ~last.store.insert /\ ~last.store.log

\* C22: when every read and write on the context cache store fails, a cached
\* build still returns the freshly built document without raising, as a miss
\* and with nothing stored or logged; and whichever of the lookup, the cache
\* write and the sample write fail, the call raises nothing and returns a
\* document without an `error` key.
C22_AlwaysMissMode ==
    /\ BuiltOver => (last.raised = "" /\ ~IsDegraded(last.result))
    /\ StoreDown =>
          /\ ~last.cache_hit
          /\ now = last.at => last.result = FreshContext(last.context_type).doc
          /\ context_cache = last.before
          /\ context_performance = last.performance_before

\* with the store down a non-forced build was built afresh although the table
\* holds an unexpired row of its context type
C22_Witness ==
    /\ StoreDown
    /\ ~last.force_refresh
    /\ BuiltId \in DOMAIN context_cache
    /\ TextGreater(context_cache[BuiltId].expires_at, IsoFormat(last.at))

\* only the UPDATE of the lookup failed and the build went on as a miss
C22_WitnessUpdateFails ==
    /\ BuiltOver
    /\ ~last.force_refresh
    /\ last.store.select /\ ~last.store.update
    /\ BuiltId \in DOMAIN last.before
    /\ TextGreater(last.before[BuiltId].expires_at, IsoFormat(last.at))
    /\ ~last.cache_hit

---------------------------------------------------------------------------
(* Concurrent discoveries *)

\* both threads have returned from their discover call, with different maps
BothDiscovered ==
    /\ DOMAIN threads = Threads
    /\ \A t \in Threads : threads[t].pc = "done"
    /\ threads["A"].discovered_measures # threads["B"].discovered_measures

\* C23: for any interleaving of two concurrent discover calls that obtain
\* different results, once both have finished the file cache holds the
\* complete map of exactly one of the two calls and the in-memory cache holds
\* that same map.
C23_LastWriterWins ==
    BothDiscovered =>
        \E t \in Threads :
            /\ measure_cache_file.exists
            /\ measure_cache_file.measures = threads[t].discovered_measures
            /\ cached_measures = threads[t].discovered_measures

\* what does hold with whole-file writes: the file holds the map of one call
\* and the memory holds the map of one call
C23_EachOfOneCall ==
    BothDiscovered =>
        /\ \E t \in Threads :
              /\ measure_cache_file.exists
              /\ measure_cache_file.measures = threads[t].discovered_measures
        /\ \E t \in Threads : cached_measures = threads[t].discovered_measures

---------------------------------------------------------------------------
(* What a discovery persists *)

\* the last call was a measure discovery whose remote queries succeeded
MeasuresDiscovered ==
    /\ last.op = "discover_measures"
    /\ "write_ok" \in DOMAIN last
    /\ last.remote.fail_at = 0

\* the last call was a schema discovery whose remote queries succeeded
SchemaDiscovered ==
    /\ last.op = "discover_schema"
    /\ "write_ok" \in DOMAIN last
    /\ last.remote.fail_at = 0

\* the file, the memory and the returned map of the last discovery are equal
MeasuresPersisted ==
    /\ measure_cache_file.exists
    /\ measure_cache_file.measures = last.result
    /\ cached_measures = last.result

SchemaPersisted ==
    /\ schema_cache_file.exists
    /\ schema_cache_file.tables = last.result
    /\ cached_tables = last.result

\* C24: when discover returns after a successful remote query, the file
\* cache content, the in-memory cache and the returned map are equal, the
\* previous content being entirely replaced.
C24_FullMapPersisted ==
    /\ MeasuresDiscovered => MeasuresPersisted
    /\ SchemaDiscovered => SchemaPersisted

\* what holds of the code: the memory equals the returned map, and so does the
\* file when it could be opened for writing; otherwise the file is as before
C24_PersistedWhenWritable ==
    /\ MeasuresDiscovered =>
          /\ cached_measures = last.result
          /\ last.write_ok => MeasuresPersisted
          /\ ~last.write_ok => measure_cache_file = last.before.file
    /\ SchemaDiscovered =>
          /\ cached_tables = last.result
          /\ last.write_ok => SchemaPersisted
          /\ ~last.write_ok => schema_cache_file = last.before.file

---------------------------------------------------------------------------
(* A discovery in which the client raises *)

\* the last call was a measure discovery whose workspace lookup, dataset
\* lookup or measures query raised
MeasureDiscoveryFailed ==
    /\ last.op = "discover_measures"
    /\ "write_ok" \in DOMAIN last
    /\ last.remote.fail_at \in 1..3

\* the last call was a schema discovery one of whose client calls raised
SchemaDiscoveryFailed ==
    /\ last.op = "discover_schema"
    /\ "write_ok" \in DOMAIN last
    /\ last.remote.fail_at \in 1..4

\* the generic names asked for
AskedNames == { <<"r","e","v","e","n","u","e">>, <<"c","a","s","h">>, <<"t","u","r","n","o","v","e","r">>, <<"e","b","i","t","d","a">> }

\* the step is a measure discovery call that failed
FailedMeasureDiscoveryStep ==
    /\ last' # last
    /\ last'.op = "discover_measures"
    /\ last'.remote.fail_at \in 1..3

\* get_measure_mapping answers after the step what it answered before
SameAnswers ==
    \A g \in AskedNames : GetMeasureMapping(g)' = GetMeasureMapping(g)

\* the managers' state is what it was before the failed call
FailedDiscoveryKeeps ==
    /\ MeasureDiscoveryFailed =>
          /\ cached_measures = last.before.cached
          /\ last_discovery = last.before.last_discovery
          /\ measure_cache_file = last.before.file
          /\ last.result = << >> /\ last.raised = ""
    /\ SchemaDiscoveryFailed =>
          /\ cached_tables = last.before.cached
          /\ schema_last_discovery = last.before.last_discovery
          /\ schema_cache_file = last.before.file
          /\ last.result = << >> /\ last.raised = ""

\* C25: a discover call in which the remote client raises at the workspace
\* lookup, the dataset lookup or the main metadata query leaves the cached
\* map, the file cache and the last-discovery time unchanged, and
\* get_measure_mapping answers after it what it answered before.
C25_FailedDiscoveryKeeps ==
    /\ []FailedDiscoveryKeeps
    /\ [][FailedMeasureDiscoveryStep => SameAnswers]_vars

\* a measure discovery failed over a map discovered earlier, which still
\* answers for revenue
C25_Witness ==
    /\ MeasureDiscoveryFailed
    /\ last.before.last_discovery = 0
    /\ last.at > 0
    /\ cached_measures # << >>
    /\ measure_cache_file.exists
    /\ GetMeasureMapping(<<"r","e","v","e","n","u","e">>) = <<"R","e","v","e","n","u","e","_","A","I">>

\* a schema discovery failed over discovered tables
C25_WitnessSchema ==
    /\ SchemaDiscoveryFailed
    /\ last.before.last_discovery = 0
    /\ last.at > 0
    /\ cached_tables # << >>

---------------------------------------------------------------------------
(* save_custom_mapping when persisting fails *)

\* the last call was a save_custom_mapping that returned False
SaveFailed == last.op = "save_custom_mapping" /\ ~last.result

\* C26: save_custom_mapping is all-or-nothing: if it returns false the
\* in-memory custom mapping is unchanged, and the in-memory mapping and the
\* persisted mapping never disagree.
C26_AllOrNothing ==
    /\ SaveFailed => measure_mappings = last.before.mappings
    /\ measure_mappings = LoadMappings(mapping_file)

\* what the code does when persisting fails: the file is as before and the
\* memory holds the new mapping, which get_measure_mapping answers
C26_MemoryFirst ==
    SaveFailed =>
        /\ mapping_file = last.before.file
        /\ measure_mappings = DictSet(last.before.mappings, last.generic_name,
                                      last.actual_measure_name)
        /\ GetMeasureMapping(last.generic_name) = last.actual_measure_name

---------------------------------------------------------------------------
(* The confidence of discovered tables *)

\* 0.08 = 0x1.47ae147ae147bp-4
Float_0_08 == << 21474836, 128849019 >>

\* a schema discovery produced tables
SchemaProduced == last.op = "discover_schema" /\ last.result # << >>

\* lo <= x <= hi
FloatWithin(x, lo, hi) == ~FloatLess(x, lo) /\ ~FloatLess(hi, x)

\* the table was named by the tables query of the last discovery
Described(t) ==
    \E k \in 1..Len(ResultRows(last.remote.tables)) :
        ResultRows(last.remote.tables)[k].name = t.name

\* confidence in [0.1, 1.0], and above 0.5 for a fact table
ClassifierBounds(t) ==
    /\ FloatWithin(t.confidence, Float_0_1, Float_1_0)
    /\ t.is_fact_table => FloatLess(Float_0_5, t.confidence)

\* confidence in [0.08, 0.8], and above 0.4 for a fact table
ScaledBounds(t) ==
    /\ FloatWithin(t.confidence, Float_0_08, Float_0_8)
    /\ t.is_fact_table => FloatLess(Float_0_4, t.confidence)

\* C27 as stated: every TableSchema in a schema discovery result, including
\* tables found only through the column query, has confidence in [0.1, 1.0],
\* and is_fact_table implies confidence > 0.5.
C27_AsStated ==
    SchemaProduced =>
        \A k \in 1..Len(last.result) : ClassifierBounds(last.result[k])

\* C27: a TableSchema of a table named by the description query has
\* confidence in [0.1, 1.0] and is_fact_table implies confidence > 0.5; a
\* TableSchema of a table found only through the column query has confidence
\* in [0.08, 0.8] and is_fact_table implies confidence > 0.4.
C27_ScaledBounds ==
    SchemaProduced =>
        \A k \in 1..Len(last.result) :
            IF Described(last.result[k])
            THEN ClassifierBounds(last.result[k])
            ELSE ScaledBounds(last.result[k])

\* a fact table found only through the column query, with confidence not
\* above 0.5
C27_Witness ==
    /\ SchemaProduced
    /\ \E k \in 1..Len(last.result) :
          /\ ~Described(last.result[k])
          /\ last.result[k].is_fact_table
          /\ ~FloatLess(Float_0_5, last.result[k].confidence)

\* a table found only through the column query, with confidence below 0.1
C27_WitnessFloor ==
    /\ SchemaProduced
    /\ \E k \in 1..Len(last.result) :
          /\ ~Described(last.result[k])
          /\ FloatLess(last.result[k].confidence, Float_0_1)

\* a described fact table
C27_WitnessDescribed ==
    /\ SchemaProduced
    /\ \E k \in 1..Len(last.result) :
          /\ Described(last.result[k])
          /\ last.result[k].is_fact_table

---------------------------------------------------------------------------
(* Concurrent cached builds *)

\* no call is in progress and the row of the schema context is stored
BuildsAtRest ==
    /\ \A t \in DOMAIN threads : threads[t].pc = "done"
    /\ ContextId(<<"s","c","h","e","m","a">>) \in DOMAIN context_cache

\* C28: under any interleaving of concurrent cached builds on the same
\* context key, the hit_count of the stored entry equals the number of calls
\* that were served that entry's payload since the entry was created.
C28_HitCountExact ==
    BuildsAtRest =>
        context_cache[ContextId(<<"s","c","h","e","m","a">>)].hit_count = EntryHistory.served

\* what does hold: the counter of the stored row is the number of UPDATE
\* statements run since the row was written, whichever row their call read
C28_CountsUpdates ==
    BuildsAtRest =>
        context_cache[ContextId(<<"s","c","h","e","m","a">>)].hit_count >= EntryHistory.served

---------------------------------------------------------------------------
(* The measures context and the current mappings *)

\* the last call was a cached build of the measures context
BuiltMeasures == Built /\ last.context_type = <<"m","e","a","s","u","r","e","s">>

\* the generic names of FINANCIAL_MEASURES
FinancialNames == { FINANCIAL_MEASURES[i][1] : i \in 1..Len(FINANCIAL_MEASURES) }

\* the document's active mapping of g is what get_measure_mapping(g) answers
Reflects(doc, g) ==
    /\ g \in DOMAIN doc.active_mappings
    /\ doc.active_mappings[g] = GetMeasureMapping(g)

\* C29 as stated: after save_custom_mapping(g, a) returns true or a
\* successful discovery changes the discovered measures, the next non-forced
\* cached measures build returns a document whose active_mappings[g] equals
\* get_measure_mapping(g) at that time.
C29_AsStated ==
    (BuiltMeasures /\ ~last.force_refresh) =>
        \A g \in SavedNames :
            GetMeasureMapping(g) # None => Reflects(last.result, g)

\* C29: a cached measures build that is not a hit (forced, or no unexpired
\* entry) returns and stores a document whose active_mappings[g] equals
\* get_measure_mapping(g) at that time for every generic name g of
\* FINANCIAL_MEASURES; a hit returns the stored document as it was built,
\* whatever was saved or discovered since.
C29_ReflectsWhenBuilt ==
    BuiltMeasures =>
        /\ ~last.cache_hit =>
              /\ \A g \in FinancialNames : Reflects(last.result, g)
              /\ JsonLoads(context_cache[BuiltId].context_data) = last.result
        /\ last.cache_hit =>
              last.result = JsonLoads(last.before[BuiltId].context_data)

\* a hit returned a mapping of revenue that get_measure_mapping no longer
\* answers
C29_Witness ==
    /\ BuiltMeasures
    /\ last.cache_hit
    /\ last.result.active_mappings[<<"r","e","v","e","n","u","e">>] # GetMeasureMapping(<<"r","e","v","e","n","u","e">>)

\* a forced build returned the mapping saved before it
C29_WitnessForced ==
    /\ BuiltMeasures
    /\ last.force_refresh
    /\ HadEntry
    /\ <<"r","e","v","e","n","u","e">> \in DOMAIN measure_mappings
    /\ last.result.active_mappings[<<"r","e","v","e","n","u","e">>] = measure_mappings[<<"r","e","v","e","n","u","e">>]
    /\ JsonLoads(last.before[BuiltId].context_data).active_mappings[<<"r","e","v","e","n","u","e">>]
          # measure_mappings[<<"r","e","v","e","n","u","e">>]

---------------------------------------------------------------------------
(* The cache id *)

\* C30: two different triples (context_type, workspace, dataset) never have
\* the same cache id, so the row a cached build finds under its id (to read
\* it or to overwrite it) was written for the build's own triple.
C30_KeyInjective ==
    HadEntry =>
        /\ last.before[BuiltId].context_type = last.context_type
        /\ last.before[BuiltId].workspace = builder_workspace_name
        /\ last.before[BuiltId].dataset = builder_dataset_name

====
